---- MODULE Spec2Model ----
(***************************************************************************)
(* Night Sky Viewer: the headless sky model (night_sky/sky_model.py).      *)
(*                                                                         *)
(* Units.  Altitudes are integers in millidegrees (1000 = 1 degree),       *)
(* right ascension, declination and azimuth are integers in degrees,       *)
(* magnitudes are integers in tenths of a magnitude.  Radians inside the   *)
(* refraction formula are fixed point with scale FX (1 radian = FX).       *)
(***************************************************************************)
EXTENDS Integers, Sequences, FiniteSets, TLC

VARIABLES
    self,       \* the SkyModel instance: catalog, configuration, kernel cache
    ephem,      \* astropy's process-wide solar_system_ephemeris selection
    kernel_file,\* whether the downloaded kernel file exists on disk
    pc,         \* position of the running compute_snapshot call ("idle" if none)
    inp,        \* what the sky looks like for the (lat, lon, instant) of the call
    loc,        \* local variables of the running compute_snapshot call
    scope,      \* the open _ephem_context scope, optional: [saved, selected, fetch]
    qlog,       \* history: the position queries of the call, with their source
    snapshot,   \* optional: the SkySnapshot the finished call returned
    ref,        \* history: input and snapshot of one remembered earlier call
    prefs_file  \* optional: the content of ~/.night_sky/prefs.json

vars == <<self, ephem, kernel_file, pc, inp, loc, scope, qlog, snapshot, ref,
          prefs_file>>

None == "None"

-----------------------------------------------------------------------------
(* Fixed-point helpers *)

FX == 10000
PI_FX == 31416

Max(a, b) == IF a >= b THEN a ELSE b
Min(a, b) == IF a <= b THEN a ELSE b
Abs(a) == IF a < 0 THEN 0 - a ELSE a

\* sin and cos of z (0 <= z < pi/2, scale FX) by their Taylor series in Horner form
SinFx(z) ==
    LET z2 == (z * z) \div FX
        h4 == FX - z2 \div 72
        h3 == FX - ((z2 * h4) \div FX) \div 42
        h2 == FX - ((z2 * h3) \div FX) \div 20
        h1 == FX - ((z2 * h2) \div FX) \div 6
    IN  (z * h1) \div FX

CosFx(z) ==
    LET z2 == (z * z) \div FX
        g5 == FX - z2 \div 90
        g4 == FX - ((z2 * g5) \div FX) \div 56
        g3 == FX - ((z2 * g4) \div FX) \div 30
        g2 == FX - ((z2 * g3) \div FX) \div 12
    IN  FX - ((z2 * g2) \div FX) \div 2

-----------------------------------------------------------------------------
(* SkyModel._apply_refraction *)

\* Bennett's formula as the code evaluates it, in millidegrees:
\*   alt_rad = radians(max(alt, -1.0) + 0.001)
\*   R = 1.02 / tan(alt_rad + 10.3 / (alt_rad + 5.11))      (arcminutes)
\* The argument of tan lies in (pi/2, pi) for every alt in [-1, 90], so
\* tan(arg) = -tan(pi - arg) and R/60 degrees = -17 * cos(z) / sin(z) millidegrees.
BennettR(alt) ==
    LET x   == ((Max(alt, -1000) + 1) * 17453) \div 100000
        arg == x + 1030000000 \div (x + 51100)
        z   == PI_FX - arg
        s   == SinFx(z)
        c   == CosFx(z)
    IN  0 - ((17 * c + s \div 2) \div s)

\* a plausible slip: the range of the correction model is not tested
ApplyRefractionNoRangeTest(enabled, alt) ==
    IF ~enabled THEN alt ELSE alt + BennettR(alt)

ApplyRefraction(enabled, alt) ==
    IF ~enabled THEN alt
    ELSE IF alt < -1000 \/ alt > 90000 THEN alt
    ELSE alt + BennettR(alt)

-----------------------------------------------------------------------------
(* Python floats (IEEE doubles) near multiples of 0.1                        *)
(*                                                                           *)
(* A float is a record [t, e] whose value is  t/10 + e * U  with             *)
(* U = 2^-56 / 10: t is the nearest tenth, e the distance from it.  In units *)
(* of U the doubles of the binade [2^k, 2^(k+1)) are the multiples of        *)
(* 5 * 2^(k+5), and t/10 is t * 2^56 units, so that rounding needs only the  *)
(* residue of t * 2^56 modulo the spacing.                                   *)

\* 2^n mod 5
Pow2Mod5(n) ==
    CASE n % 4 = 0 -> 1
      [] n % 4 = 1 -> 2
      [] n % 4 = 2 -> 4
      [] n % 4 = 3 -> 3

RECURSIVE BinadeTop(_, _)
\* the j with 5 * 2^j <= a < 5 * 2^(j+1), for a >= 5 (that is, 2^(j-1) <= a/10)
BinadeTop(a, j) == IF a < 10 * 2^j THEN j ELSE BinadeTop(a, j + 1)

\* q such that the doubles around a/10 (a > 0) are 5 * 2^q units apart; below
\* says that the value lies under a/10, which matters where a/10 is a power of 2
SpacingExp(a, below) ==
    IF a < 2 THEN 1
    ELSE IF a < 3 THEN 2
    ELSE IF a < 5 THEN 3
    ELSE LET j == BinadeTop(a, 0)
         IN  IF a = 5 * 2^j /\ below THEN 3 + j ELSE 4 + j

\* (t * 2^56 + e) mod (5 * 2^q), for t >= 0
ModUnits(t, e, q) ==
    ((2^q) * (((t % 5) * Pow2Mod5(56 - q)) % 5) + e) % (5 * 2^q)

\* round to nearest, ties to even: the e of the double nearest to t/10 + e * U
RoundPos(t, e) ==
    LET q == SpacingExp(t, e < 0)
        s == 5 * 2^q
        r == ModUnits(t, e, q)
    IN  IF 2 * r < s THEN e - r
        ELSE IF 2 * r > s THEN e + s - r
        ELSE IF ModUnits(t, e, q + 1) < s THEN e - r ELSE e + s - r

\* a difference with t = 0 is the difference of two doubles near the same
\* tenth, which is exact
FloatRound(t, e) ==
    IF t = 0 THEN [t |-> 0, e |-> e]
    ELSE IF t > 0 THEN [t |-> t, e |-> RoundPos(t, e)]
    ELSE [t |-> t, e |-> 0 - RoundPos(0 - t, 0 - e)]

\* float("m.d"), the literal m.d: the double nearest to t tenths
FloatOfTenths(t) == FloatRound(t, 0)

\* k * x for an int k, x - y, x <= y, max(x, y)
FloatMulInt(k, x) == FloatRound(k * x.t, k * x.e)
FloatSub(x, y) == FloatRound(x.t - y.t, x.e - y.e)
FloatLe(x, y) == x.t < y.t \/ (x.t = y.t /\ x.e <= y.e)
FloatMax(x, y) == IF FloatLe(y, x) THEN x ELSE y

-----------------------------------------------------------------------------
(* SkyModel._filter_catalog_by_mag and the limit compute_snapshot passes it *)

\* a plausible slip: the retained entries are returned brightest first
FilterCatalogByMagSorted(catalog, mag_limit) ==
    SortSeq(IF mag_limit = <<>> THEN catalog
            ELSE SelectSeq(catalog, LAMBDA s : FloatLe(FloatOfTenths(s.mag), mag_limit[1])),
            LAMBDA a, b : a.mag < b.mag)

\* An optional value (Python's None or a value) is <<>> or <<value>>.
\* Catalog magnitudes are tenths; float(s.get('mag')) is the nearest double.
FilterCatalogByMag(catalog, mag_limit) ==
    IF mag_limit = <<>> THEN catalog
    ELSE SelectSeq(catalog, LAMBDA s : FloatLe(FloatOfTenths(s.mag), mag_limit[1]))

\* a plausible slip: the penalty is taken per step below Bortle 9
EffectiveLimMagDarkerIsWorse(limiting_magnitude, bortle) ==
    LET lp_penalty == FloatMulInt(Max(0, 9 - bortle), FloatOfTenths(2))
    IN  FloatMax(FloatOfTenths(-50), FloatSub(FloatOfTenths(limiting_magnitude), lp_penalty))

\* lp_penalty = max(0, bortle - 1) * 0.2; effective = max(-5.0, limiting - lp_penalty)
\* limiting_magnitude is given in tenths; the result is a float
EffectiveLimMag(limiting_magnitude, bortle) ==
    LET lp_penalty == FloatMulInt(Max(0, bortle - 1), FloatOfTenths(2))
    IN  FloatMax(FloatOfTenths(-50), FloatSub(FloatOfTenths(limiting_magnitude), lp_penalty))

\* __init__: self.light_pollution_bortle = max(1, min(int(bortle), 9))
ClampBortle(b) == Max(1, Min(b, 9))

-----------------------------------------------------------------------------
(* Names *)

\* SkyModel.PLANETS
PLANETS == <<"mercury", "venus", "mars", "jupiter", "saturn">>

\* SkyModel.METEOR_RADIANTS
METEOR_RADIANTS == <<
    [name |-> "Perseids",    ra_deg |-> 46,  dec_deg |-> 58],
    [name |-> "Geminids",    ra_deg |-> 112, dec_deg |-> 33],
    [name |-> "Quadrantids", ra_deg |-> 230, dec_deg |-> 49],
    [name |-> "Lyrids",      ra_deg |-> 272, dec_deg |-> 34] >>

\* str.capitalize() on the planet names
Capitalize(n) ==
    CASE n = "mercury" -> "Mercury"
      [] n = "venus"   -> "Venus"
      [] n = "mars"    -> "Mars"
      [] n = "jupiter" -> "Jupiter"
      [] n = "saturn"  -> "Saturn"
      [] OTHER         -> n

\* the ephemeris sources astropy's solar_system_ephemeris can hold
Builtin == "builtin"
KernelPath == "de421.bsp"
OtherEphem == "de432s"

\* outcomes of download_file(url, cache=True, timeout=20)
FetchOutcomes == {"raise", "nofile", "ok"}

-----------------------------------------------------------------------------
(* The loaded catalog and the skies the transform service can present *)

\* the rows in the order of the CSV file, which is not the order of brightness
Catalog == <<
    [id |-> 2, name |-> "B", ra_deg |-> 100, dec_deg |-> 20, mag |-> 40],
    [id |-> 4, name |-> "D", ra_deg |-> 300, dec_deg |-> 60, mag |-> 70],
    [id |-> 1, name |-> "A", ra_deg |-> 10,  dec_deg |-> 0,  mag |-> 10],
    [id |-> 3, name |-> "C", ra_deg |-> 200, dec_deg |-> -5, mag |-> 45] >>

\* the stars of a catalog file the user selects, and of stars_rich.csv
CustomCatalog == <<
    [id |-> 3, name |-> "C", ra_deg |-> 200, dec_deg |-> -5, mag |-> 45],
    [id |-> 1, name |-> "A", ra_deg |-> 10,  dec_deg |-> 0,  mag |-> 10] >>

RichCatalog == <<
    [id |-> 4, name |-> "D", ra_deg |-> 300, dec_deg |-> 60, mag |-> 70],
    [id |-> 3, name |-> "C", ra_deg |-> 200, dec_deg |-> -5, mag |-> 45],
    [id |-> 2, name |-> "B", ra_deg |-> 100, dec_deg |-> 20, mag |-> 40] >>

\* A CSV file is a sequence of rows [fields, converts]: converts is false for
\* a row on which int(row['id']) or one of the float(...) raises.
CsvRows(stars) == [i \in 1..Len(stars) |-> [fields |-> stars[i], converts |-> TRUE]]
BadCsvRow ==
    [fields   |-> [id |-> 0, name |-> "", ra_deg |-> 0, dec_deg |-> 0, mag |-> 0],
     converts |-> FALSE]

\* lines 56-72 of load_bright_stars: the rows that convert, in file order
ReadCsv(file) ==
    LET kept == SelectSeq(file, LAMBDA row : row.converts)
    IN  [i \in 1..Len(kept) |-> kept[i].fields]

\* load_bright_stars(catalog) on the files present (a function from the paths
\* that exist to their content): <<stars>>, or <<>> when FileNotFoundError
\* is raised
LoadBrightStars(catalog, files) ==
    LET path == IF catalog = "None" \/ catalog = "default"
                THEN (IF "stars_extended.csv" \in DOMAIN files
                      THEN "stars_extended.csv" ELSE "stars_bright.csv")
                ELSE IF catalog = "rich"
                THEN (IF "stars_rich.csv" \in DOMAIN files
                      THEN "stars_rich.csv" ELSE "stars_extended.csv")
                ELSE catalog
    IN  IF path \notin DOMAIN files THEN <<>> ELSE <<ReadCsv(files[path])>>

\* the content of the catalog files: stars_bright.csv has a row that does not
\* convert, stars_extended.csv is stars_bright.csv without its first star
FileContent(path) ==
    CASE path = "stars_bright.csv" ->
             SubSeq(CsvRows(Catalog), 1, 2) \o <<BadCsvRow>> \o SubSeq(CsvRows(Catalog), 3, 4)
      [] path = "stars_extended.csv" -> CsvRows(SubSeq(Catalog, 2, 4))
      [] path = "stars_rich.csv" -> CsvRows(RichCatalog)
      [] path = "custom.csv" -> CsvRows(CustomCatalog)

\* the files a data directory can hold
Files(paths) == [path \in paths |-> FileContent(path)]
DataFiles ==
    {Files({"stars_bright.csv", "custom.csv"} \cup more) :
        more \in SUBSET {"stars_extended.csv", "stars_rich.csv"}}

\* the directory of the installation the snapshots are computed on
InstalledFiles == Files({"stars_bright.csv", "stars_rich.csv"})

\* SkyModel.load_stars: the catalog handed to the loader
LoadStarsCatalog(s) ==
    IF s.catalog_mode = "rich" THEN "rich"
    ELSE IF s.catalog_mode = "custom" /\ s.custom_catalog # "" THEN s.custom_catalog
    ELSE "None"

\* Equatorial position and raw (unrefracted) horizon position of each body.
\* All bodies lie on the celestial equator, where the angular separation of two
\* bodies is the circular difference of their right ascensions.
BaseBody == [
    mercury |-> [ra_deg |-> 270, dec_deg |-> 0, alt |-> -10000, az |-> 250],
    venus   |-> [ra_deg |-> 300, dec_deg |-> 0, alt |-> 20000,  az |-> 230],
    mars    |-> [ra_deg |-> 10,  dec_deg |-> 0, alt |-> 5,      az |-> 90],
    jupiter |-> [ra_deg |-> 40,  dec_deg |-> 0, alt |-> 45000,  az |-> 120],
    saturn  |-> [ra_deg |-> 340, dec_deg |-> 0, alt |-> -30000, az |-> 0],
    moon    |-> [ra_deg |-> 302, dec_deg |-> 0, alt |-> 30000,  az |-> 359],
    sun     |-> [ra_deg |-> 280, dec_deg |-> 0, alt |-> -20000, az |-> 300] ]

\* messier and ngc are optional (<<>> when the CSV file is missing).
\* altitude samples of each body over the rise/set window
BaseTrack == [
    Sun     |-> <<-20000, -5000, 10000, 5000, -10000>>,
    Moon    |-> <<30000, 10000, -5000, -20000, -1000>>,
    Mercury |-> <<-10000, 2000, 15000, 1000, -12000>>,
    Venus   |-> <<20000, 30000, 10000, -5000, -20000>>,
    Mars    |-> <<5, 20000, 40000, 20000, 5>>,
    Jupiter |-> <<45000, 50000, 45000, 40000, 45000>>,
    Saturn  |-> <<-30000, -20000, -10000, -20000, -30000>> ]

BaseMessier == <<
    [name |-> "M31", type |-> "Galaxy", ra_deg |-> 11, dec_deg |-> 41, alt |-> 50000, az |-> 45],
    [name |-> "M42", type |-> "Nebula", ra_deg |-> 84, dec_deg |-> -5, alt |-> 5,     az |-> 180] >>

BaseNgc == <<
    [name |-> "NGC869", type |-> "Cluster", ra_deg |-> 35, dec_deg |-> 57, alt |-> -7000, az |-> 10] >>

BaseSky == [
    id       |-> "base",
    starAlt  |-> <<40000, 5, -2000, 30000>>,
    starAz   |-> <<10, 120, 200, 359>>,
    body     |-> BaseBody,
    qfail    |-> {},
    tfail    |-> {},
    risefail |-> {},
    messier  |-> <<BaseMessier>>,
    ngc      |-> <<BaseNgc>>,
    radAlt   |-> <<60000, -1000, 5, -40000>>,
    radAz    |-> <<20, 110, 200, 290>>,
    track    |-> BaseTrack ]

WithAlt(sky, b, a) == [sky EXCEPT !.body[b].alt = a]
WithRa(sky, b, r) == [sky EXCEPT !.body[b].ra_deg = r]

Skies == {
    BaseSky,
    [WithAlt(BaseSky, "sun", 10000) EXCEPT !.id = "day"],
    [WithAlt(BaseSky, "moon", -5000) EXCEPT !.id = "moon_down"],
    [WithAlt(BaseSky, "moon", 5) EXCEPT !.id = "moon_low"],
    [BaseSky EXCEPT !.id = "moon_query_fails", !.qfail = {"moon"}],
    [BaseSky EXCEPT !.id = "moon_transform_fails", !.tfail = {"moon"}],
    [BaseSky EXCEPT !.id = "venus_query_fails", !.qfail = {"venus"}],
    [BaseSky EXCEPT !.id = "jupiter_transform_fails", !.tfail = {"jupiter"}],
    [BaseSky EXCEPT !.id = "sun_query_fails", !.qfail = {"sun_twilight"}],
    [WithAlt(BaseSky, "sun", 10000) EXCEPT !.id = "day_sun_transform_fails", !.tfail = {"sun"}],
    [BaseSky EXCEPT !.id = "phase_fails", !.qfail = {"phase"}],
    [BaseSky EXCEPT !.id = "get_sun_fails", !.qfail = {"sun_riseset"}],
    [BaseSky EXCEPT !.id = "venus_riseset_fails", !.risefail = {"Venus"}],
    [BaseSky EXCEPT !.id = "no_messier", !.messier = <<>>],
    [BaseSky EXCEPT !.id = "no_ngc", !.ngc = <<>>],
    [WithRa(WithAlt(BaseSky, "sun", 10000), "moon", 283) EXCEPT !.id = "day_new_moon"],
    [WithRa(BaseSky, "moon", 100) EXCEPT !.id = "full_moon",
        !.starAlt = <<-3000, -100, 9, 70000>>, !.radAlt = <<-5, 90000, 8, 9>>] }

-----------------------------------------------------------------------------
(* The Celestial Transform Service (astropy), on the skies above *)

\* SkyCoord.separation, in degrees, for two coordinates on the celestial equator
Separation(a, b) ==
    LET d == Abs(a.ra_deg - b.ra_deg) % 360
    IN  Min(d, 360 - d)

\* cos of an angle of d degrees (0 <= d <= 180), scale FX
CosDeg(d) ==
    LET r == (d * 1745329) \div 10000
    IN  IF 2 * r <= PI_FX THEN CosFx(r) ELSE 0 - CosFx(PI_FX - r)

-----------------------------------------------------------------------------
(* SkyModel._moon_phase *)

\* a plausible slip: the comparisons are <=, so that a band's upper bound belongs to it
PhaseNameInclusiveUpper(fraction) ==
    IF fraction <= 300 THEN "New Moon"
    ELSE IF fraction <= 2500 THEN "Waxing crescent"
    ELSE IF fraction <= 2700 THEN "First quarter"
    ELSE IF fraction <= 4800 THEN "Waxing gibbous"
    ELSE IF fraction <= 5200 THEN "Full Moon"
    ELSE IF fraction <= 7300 THEN "Waning gibbous"
    ELSE IF fraction <= 7700 THEN "Last quarter"
    ELSE IF fraction <= 9700 THEN "Waning crescent"
    ELSE "New Moon"

\* lines 346-364: the name of the phase; fraction has scale FX
PhaseName(fraction) ==
    IF fraction < 300 THEN "New Moon"
    ELSE IF fraction < 2500 THEN "Waxing crescent"
    ELSE IF fraction < 2700 THEN "First quarter"
    ELSE IF fraction < 4800 THEN "Waxing gibbous"
    ELSE IF fraction < 5200 THEN "Full Moon"
    ELSE IF fraction < 7300 THEN "Waning gibbous"
    ELSE IF fraction < 7700 THEN "Last quarter"
    ELSE IF fraction < 9700 THEN "Waning crescent"
    ELSE "New Moon"

\* a plausible slip: the except branch sets waxing = False
MoonPhaseWaningOnFailure(sky, queries_ok) ==
    LET phase_angle == Separation(sky.body["sun"], sky.body["moon"])
        fraction == IF queries_ok THEN (FX - CosDeg(phase_angle)) \div 2 ELSE 0
        ra_diff  == (sky.body["moon"].ra_deg - sky.body["sun"].ra_deg) % 360
        waxing   == IF queries_ok THEN ra_diff < 180 ELSE FALSE
    IN  [fraction |-> fraction, name |-> PhaseName(fraction), waxing |-> waxing]

\* fraction has scale FX (FX = fully illuminated); queries_ok is false when
\* get_body raises inside the try block
MoonPhase(sky, queries_ok) ==
    LET phase_angle == Separation(sky.body["sun"], sky.body["moon"])
        fraction == IF queries_ok THEN (FX - CosDeg(phase_angle)) \div 2 ELSE 0
        ra_diff  == (sky.body["moon"].ra_deg - sky.body["sun"].ra_deg) % 360
        waxing   == IF queries_ok THEN ra_diff < 180 ELSE TRUE
    IN  [fraction |-> fraction, name |-> PhaseName(fraction), waxing |-> waxing]

-----------------------------------------------------------------------------
(* SkyModel._compute_rise_set_for_coord and _compute_rise_set_summary *)

SetMax(S) == CHOOSE x \in S : \A y \in S : y <= x

\* a plausible slip: an upward crossing is any rise of the altitude above 0
RiseSetForCoordAnyIncrease(alts) ==
    LET n    == Len(alts)
        up   == {i \in 1..(n - 1) : alts[i] <= alts[i + 1] /\ 0 < alts[i + 1]}
        down == {i \in 1..(n - 1) : alts[i] >= 0 /\ 0 > alts[i + 1]}
    IN  [rise      |-> IF up = {} THEN <<>> ELSE <<SetMax(up)>>,
         set       |-> IF down = {} THEN <<>> ELSE <<SetMax(down)>>,
         culminate |-> SetMax({alts[i] : i \in 1..n})]

\* alts: the sampled altitudes; sample i of the code (0-based) is alts[i + 1].
\* The loop assigns rise (set_) at every crossing, so the last one is kept.
RiseSetForCoord(alts) ==
    LET n    == Len(alts)
        up   == {i \in 1..(n - 1) : alts[i] <= 0 /\ 0 < alts[i + 1]}
        down == {i \in 1..(n - 1) : alts[i] >= 0 /\ 0 > alts[i + 1]}
    IN  [rise      |-> IF up = {} THEN <<>> ELSE <<SetMax(up)>>,
         set       |-> IF down = {} THEN <<>> ELSE <<SetMax(down)>>,
         culminate |-> SetMax({alts[i] : i \in 1..n})]

RiseSetRecord(sky, name) ==
    LET r == RiseSetForCoord(sky.track[name])
    IN  [name |-> name, rise |-> r.rise, set |-> r.set, culmination_alt |-> r.culminate]

\* planets without the entries named "moon" (case-insensitive)
NotMoon(planets) == SelectSeq(planets, LAMBDA p : p.name # "Moon")

\* <<>> when an exception leaves the function, <<summary>> otherwise
ComputeRiseSetSummary(sky, planets, moon_obj) ==
    LET others == NotMoon(planets)
        names  == {"Sun"} \cup (IF moon_obj # <<>> THEN {"Moon"} ELSE {})
                          \cup {others[i].name : i \in 1..Len(others)}
    IN  IF "sun_riseset" \in sky.qfail \/ names \cap sky.risefail # {}
        THEN <<>>
        ELSE << <<RiseSetRecord(sky, "Sun")>>
                \o (IF moon_obj # <<>> THEN <<RiseSetRecord(sky, "Moon")>> ELSE <<>>)
                \o [i \in 1..Len(others) |-> RiseSetRecord(sky, others[i].name)] >>

-----------------------------------------------------------------------------
(* SkyModel._detect_conjunctions *)

\* a plausible slip: the threshold is inclusive
IsConjunctionInclusive(sep) == sep <= 5

\* line 249: if sep < 5.0
IsConjunction(sep) == sep < 5

RECURSIVE ConjunctionsFrom(_, _, _)
\* the pairs (i, j), i < j, in the order of the nested loops
ConjunctionsFrom(bodies, i, j) ==
    IF i > Len(bodies) THEN <<>>
    ELSE IF j > Len(bodies) THEN ConjunctionsFrom(bodies, i + 1, i + 2)
    ELSE LET sep == Separation(bodies[i], bodies[j])
         IN  (IF IsConjunction(sep)
              THEN <<[name |-> "Conjunction", name_a |-> bodies[i].name,
                      name_b |-> bodies[j].name, separation_deg |-> sep]>>
              ELSE <<>>)
             \o ConjunctionsFrom(bodies, i, j + 1)

Coord(p) == [name |-> p.name, ra_deg |-> p.ra_deg, dec_deg |-> p.dec_deg]

\* a plausible slip: abs(sep) - 180.0 < 8.0 in the lunar test
DetectConjunctionsMisplacedAbs(planets, moon_obj, sun_coord) ==
    LET bodies == [i \in 1..Len(planets) |-> Coord(planets[i])]
                  \o (IF moon_obj # <<>> THEN <<Coord(moon_obj[1])>> ELSE <<>>)
        sep    == Separation(sun_coord[1], moon_obj[1])
    IN  ConjunctionsFrom(bodies, 1, 2)
        \o (IF sun_coord # <<>> /\ moon_obj # <<>>
            THEN (IF sep < 8
                  THEN <<[name |-> "Possible solar eclipse window", separation_deg |-> sep]>>
                  ELSE <<>>)
                 \o (IF Abs(sep) - 180 < 8
                     THEN <<[name |-> "Possible lunar eclipse window",
                             separation_deg |-> Abs(sep - 180)]>>
                     ELSE <<>>)
            ELSE <<>>)

\* lines 236-260
DetectConjunctions(planets, moon_obj, sun_coord) ==
    LET bodies == [i \in 1..Len(planets) |-> Coord(planets[i])]
                  \o (IF moon_obj # <<>> THEN <<Coord(moon_obj[1])>> ELSE <<>>)
        sep    == Separation(sun_coord[1], moon_obj[1])
    IN  ConjunctionsFrom(bodies, 1, 2)
        \o (IF sun_coord # <<>> /\ moon_obj # <<>>
            THEN (IF sep < 8
                  THEN <<[name |-> "Possible solar eclipse window", separation_deg |-> sep]>>
                  ELSE <<>>)
                 \o (IF Abs(sep - 180) < 8
                     THEN <<[name |-> "Possible lunar eclipse window",
                             separation_deg |-> Abs(sep - 180)]>>
                     ELSE <<>>)
            ELSE <<>>)

-----------------------------------------------------------------------------
(* The star batch of compute_snapshot and SkyModel.get_deep_sky *)

\* the test that admits a star: the raw altitude of the transform
StarAdmitted(s, raw_alt) == raw_alt > 0

VisibleStars(s, sky) ==
    LET stars_catalog ==
            FilterCatalogByMag(s.stars,
                <<EffectiveLimMag(s.limiting_magnitude, s.light_pollution_bortle)>>)
        up == SelectSeq(stars_catalog, LAMBDA st : StarAdmitted(s, sky.starAlt[st.id]))
    IN  [i \in 1..Len(up) |->
            [id      |-> up[i].id,
             name    |-> up[i].name,
             ra_deg  |-> up[i].ra_deg,
             dec_deg |-> up[i].dec_deg,
             mag     |-> up[i].mag,
             alt_deg |-> ApplyRefraction(s.apply_refraction, sky.starAlt[up[i].id]),
             az_deg  |-> sky.starAz[up[i].id]]]

GetDeepSky(s, sky) ==
    IF sky.messier = <<>> THEN <<>>
    ELSE
    LET dso_rows == sky.messier[1] \o (IF sky.ngc = <<>> THEN <<>> ELSE sky.ngc[1])
        rows == [i \in 1..Len(dso_rows) |->
                    [name     |-> dso_rows[i].name,
                     ra_deg   |-> dso_rows[i].ra_deg,
                     dec_deg  |-> dso_rows[i].dec_deg,
                     alt_deg  |-> ApplyRefraction(s.apply_refraction, dso_rows[i].alt),
                     az_deg   |-> dso_rows[i].az,
                     obj_type |-> dso_rows[i].type]]
        rads == [i \in 1..Len(METEOR_RADIANTS) |->
                    [name     |-> METEOR_RADIANTS[i].name,
                     ra_deg   |-> METEOR_RADIANTS[i].ra_deg,
                     dec_deg  |-> METEOR_RADIANTS[i].dec_deg,
                     alt_deg  |-> ApplyRefraction(s.apply_refraction, sky.radAlt[i]),
                     az_deg   |-> sky.radAz[i],
                     obj_type |-> "Meteor radiant"]]
    IN  SelectSeq(rows, LAMBDA o : o.alt_deg > 0)
        \o SelectSeq(rads, LAMBDA o : o.alt_deg > 0)

-----------------------------------------------------------------------------
(* SkyModel._ensure_ephem_kernel and SkyModel._ephem_context *)

\* a plausible slip: the cached path is not consulted before downloading
EnsureEphemKernelNoCache(s, file_exists, outcome) ==
    IF ~s.high_accuracy_ephem
    THEN [ret |-> "None", path |-> s.ephem_kernel_path, file |-> file_exists, fetch |-> "none"]
    ELSE IF outcome = "raise"
    THEN [ret |-> "None", path |-> s.ephem_kernel_path, file |-> file_exists, fetch |-> "raise"]
    ELSE [ret |-> KernelPath, path |-> KernelPath, file |-> (outcome = "ok"), fetch |-> outcome]

\* ret: the value returned; path, file: the cached path and the existence of the
\* kernel file afterwards; fetch: the outcome of the download, "none" if none was made
EnsureEphemKernel(s, file_exists, outcome) ==
    IF ~s.high_accuracy_ephem
    THEN [ret |-> "None", path |-> s.ephem_kernel_path, file |-> file_exists, fetch |-> "none"]
    ELSE IF s.ephem_kernel_path # "None" /\ file_exists
    THEN [ret |-> s.ephem_kernel_path, path |-> s.ephem_kernel_path,
          file |-> file_exists, fetch |-> "none"]
    ELSE IF outcome = "raise"
    THEN [ret |-> "None", path |-> s.ephem_kernel_path, file |-> file_exists, fetch |-> "raise"]
    ELSE [ret |-> KernelPath, path |-> KernelPath, file |-> (outcome = "ok"), fetch |-> outcome]

\* lines 185-191: the source handed to solar_system_ephemeris.set, kernel being
\* what _ensure_ephem_kernel returned ("None" in Builtin mode, where it is not called)
EphemContextSelected(s, kernel, file_exists) ==
    IF s.high_accuracy_ephem /\ kernel # "None" /\ file_exists THEN kernel ELSE Builtin

\* a plausible slip: the kernel is selected without testing that its file exists
EphemContextNoExistsTest(s, file_exists, outcome) ==
    LET k == EnsureEphemKernel(s, file_exists, outcome)
    IN  IF s.high_accuracy_ephem
        THEN [selected |-> IF k.ret # "None" THEN k.ret ELSE Builtin,
              path |-> k.path, file |-> k.file, fetch |-> k.fetch]
        ELSE [selected |-> Builtin, path |-> s.ephem_kernel_path,
              file |-> file_exists, fetch |-> "none"]

\* a plausible slip: the high_accuracy_ephem flag is not consulted
EphemContextAlwaysKernel(s, file_exists, outcome) ==
    LET k == EnsureEphemKernel([s EXCEPT !.high_accuracy_ephem = TRUE], file_exists, outcome)
    IN  [selected |-> IF k.ret # "None" /\ k.file THEN k.ret ELSE Builtin,
         path |-> k.path, file |-> k.file, fetch |-> k.fetch]

\* the source the scope selects on entry, and what _ensure_ephem_kernel changed
EphemContext(s, file_exists, outcome) ==
    LET k == EnsureEphemKernel(s, file_exists, outcome)
    IN  IF s.high_accuracy_ephem
        THEN [selected |-> IF k.ret # "None" /\ k.file THEN k.ret ELSE Builtin,
              path |-> k.path, file |-> k.file, fetch |-> k.fetch]
        ELSE [selected |-> Builtin, path |-> s.ephem_kernel_path,
              file |-> file_exists, fetch |-> "none"]

\* a plausible slip: the scope resets the selection to the default on exit
EphemContextExitToBuiltin(sc) == Builtin

\* the selection in force after the with-block: solar_system_ephemeris.set
\* restores the value it replaced, on return and on exception alike
EphemContextExit(sc) == sc[1].saved

-----------------------------------------------------------------------------
(* State *)

InitLoc == [
    visible_stars        |-> <<>>,
    visible_planets      |-> <<>>,
    pidx                 |-> 1,      \* index of the planet loop in get_planet_positions
    moon_obj             |-> <<>>,   \* optional
    sun_coord_cache      |-> <<>>,   \* optional; <<>> while the local is unbound
    deep_sky             |-> <<>>,
    events               |-> <<>>,
    suppressed           |-> FALSE,  \* history: the twilight branch was taken
    unsuppressed_planets |-> <<>>,   \* history: visible_planets before that branch
    ephem_at_call        |-> Builtin, \* history: the selection when the call began
    self_at_call         |-> <<>> ]   \* history: the model's fields when the call began

\* SkyModel.__init__
Init ==
    /\ \E refr \in BOOLEAN, tw \in {90000, -6000}, ha \in BOOLEAN, bortle \in {4, 12} :
         self = [stars                  |-> Catalog,
                 limiting_magnitude     |-> 60,
                 apply_refraction       |-> refr,
                 twilight_sun_alt       |-> tw,
                 light_pollution_bortle |-> ClampBortle(bortle),
                 high_accuracy_ephem    |-> ha,
                 catalog_mode           |-> "default",
                 custom_catalog         |-> "",
                 ephem_kernel_path      |-> "None"]
    /\ ephem \in {Builtin, OtherEphem}
    /\ kernel_file = FALSE
    /\ pc = "idle"
    /\ inp = <<>>
    /\ loc = InitLoc
    /\ scope = <<>>
    /\ qlog = <<>>
    /\ snapshot = <<>>
    /\ ref = <<>>
    /\ prefs_file = <<>>

-----------------------------------------------------------------------------
(* compute_snapshot, one action per stretch between ephemeris scope boundaries *)

\* a position query at a call site: the source in force, whether a scope is open,
\* and what the kernel download of that scope's entry did ("none", "failed", "ok")
Query(site) ==
    [site |-> site, src |-> ephem, scoped |-> scope # <<>>,
     fetch |-> IF scope # <<>> THEN scope[1].fetch ELSE "none"]

\* lines 446-481: time normalisation, catalog filter, star batch
ComputeSnapshotBegin ==
    /\ pc = "idle"
    /\ \E sky \in Skies : 
         /\ inp' = sky
         /\ loc' = [InitLoc EXCEPT !.visible_stars = VisibleStars(self, sky),
                                   !.ephem_at_call = ephem,
                                   !.self_at_call = <<self>>]
    /\ pc' = "planet_enter"
    /\ qlog' = <<>>
    /\ snapshot' = <<>>
    /\ UNCHANGED <<prefs_file, self, ephem, kernel_file, scope, ref>>

ScopeSite ==
    CASE pc = "planet_enter"   -> PLANETS[loc.pidx]
      [] pc = "moon_enter"     -> "moon"
      [] pc = "twilight_enter" -> "sun_twilight"
      [] pc = "riseset_enter"  -> "sun_riseset"

ScopeBody ==
    CASE pc = "planet_enter"   -> "planet_body"
      [] pc = "moon_enter"     -> "moon_body"
      [] pc = "twilight_enter" -> "twilight_body"
      [] pc = "riseset_enter"  -> "riseset_body"

\* with self._ephem_context(): up to the yield
EphemContextEnter ==
    /\ pc \in {"planet_enter", "moon_enter", "twilight_enter", "riseset_enter"}
    /\ \E outcome \in FetchOutcomes :
         LET c == EphemContext(self, kernel_file, outcome)
         IN  /\ (c.fetch = "none" => outcome = "ok")
             /\ self' = [self EXCEPT !.ephem_kernel_path = c.path]
             /\ kernel_file' = c.file
             /\ scope' = <<[saved |-> ephem, selected |-> c.selected,
                             fetch |-> IF c.fetch \in {"raise", "nofile"}
                                       THEN "failed" ELSE c.fetch]>>
             /\ ephem' = c.selected
    /\ pc' = ScopeBody
    /\ UNCHANGED <<prefs_file, inp, loc, qlog, snapshot, ref>>

\* a plausible slip: the failure of the query or transform is not noticed
AppendPlanetIgnoringFailure(visible_planets, failed, p) ==
    IF p.alt_deg > 0 THEN Append(visible_planets, p) ELSE visible_planets

\* lines 406-419: the planet is appended if nothing raised and alt_corr > 0.0
AppendPlanet(visible_planets, failed, p) ==
    IF ~failed /\ p.alt_deg > 0 THEN Append(visible_planets, p) ELSE visible_planets

\* get_planet_positions, one iteration of the loop: the query inside the scope,
\* the scope's exit, the horizon transform and the test on the corrected altitude
GetPlanetPositionsStep ==
    /\ pc = "planet_body"
    /\ LET planet_name == PLANETS[loc.pidx]
           b        == inp.body[planet_name]
           failed   == planet_name \in inp.qfail \/ planet_name \in inp.tfail
           alt_corr == ApplyRefraction(self.apply_refraction, b.alt)
           p        == [name |-> Capitalize(planet_name), ra_deg |-> b.ra_deg,
                        dec_deg |-> b.dec_deg, alt_deg |-> alt_corr, az_deg |-> b.az,
                        magnitude |-> <<>>, phase_fraction |-> <<>>,
                        phase_name |-> <<>>, waxing |-> <<>>,
                        src |-> ephem, phase_src |-> <<>>]
       IN  /\ loc' = [loc EXCEPT
                        !.visible_planets = AppendPlanet(@, failed, p),
                        !.pidx = @ + 1]
           /\ qlog' = Append(qlog, Query(planet_name))
    /\ ephem' = EphemContextExit(scope)
    /\ scope' = <<>>
    /\ pc' = IF loc.pidx < Len(PLANETS) THEN "planet_enter" ELSE "moon_enter"
    /\ UNCHANGED <<prefs_file, self, kernel_file, inp, snapshot, ref>>

\* a plausible slip: the Moon is appended after the planets
InsertMoonLast(visible_planets, moon) ==
    IF moon.alt_deg > 0 THEN Append(visible_planets, moon) ELSE visible_planets

\* lines 508-509
InsertMoon(visible_planets, moon) ==
    IF moon.alt_deg > 0 THEN <<moon>> \o visible_planets ELSE visible_planets

\* lines 486-511: the Moon's position inside a scope, then, outside it, its
\* horizon transform, _moon_phase and the insertion into visible_planets
MoonStep ==
    /\ pc = "moon_body"
    /\ LET b        == inp.body["moon"]
           failed   == "moon" \in inp.qfail \/ "moon" \in inp.tfail
           after    == EphemContextExit(scope)
           phase_ok == "phase" \notin inp.qfail
           ph       == MoonPhase(inp, phase_ok)
           m        == [name |-> "Moon", ra_deg |-> b.ra_deg, dec_deg |-> b.dec_deg,
                        alt_deg |-> ApplyRefraction(self.apply_refraction, b.alt),
                        az_deg |-> b.az, magnitude |-> <<>>,
                        phase_fraction |-> <<ph.fraction>>, phase_name |-> <<ph.name>>,
                        waxing |-> <<ph.waxing>>,
                        src |-> ephem, phase_src |-> <<after>>]
           phase_q  == <<[site |-> "phase_sun", src |-> after, scoped |-> FALSE, fetch |-> "none"]>>
                       \o (IF phase_ok
                           THEN <<[site |-> "phase_moon", src |-> after, scoped |-> FALSE,
                                fetch |-> "none"]>>
                           ELSE <<>>)
       IN  /\ loc' = IF failed THEN loc
                     ELSE [loc EXCEPT !.moon_obj = <<m>>,
                                      !.visible_planets = InsertMoon(@, m)]
           /\ qlog' = Append(qlog, Query("moon")) \o (IF failed THEN <<>> ELSE phase_q)
           /\ ephem' = after
    /\ scope' = <<>>
    /\ pc' = "twilight_enter"
    /\ UNCHANGED <<prefs_file, self, kernel_file, inp, snapshot, ref>>

\* lines 513-523: the Sun's position inside a scope, then the twilight test
TwilightStep ==
    /\ pc = "twilight_body"
    /\ LET b        == inp.body["sun"]
           got_sun  == "sun_twilight" \notin inp.qfail
           suppress == /\ got_sun
                       /\ "sun" \notin inp.tfail
                       /\ self.twilight_sun_alt < 90000
                       /\ b.alt > self.twilight_sun_alt
           cache    == IF got_sun
                       THEN <<[name |-> "Sun", ra_deg |-> b.ra_deg, dec_deg |-> b.dec_deg,
                               src |-> ephem]>>
                       ELSE loc.sun_coord_cache
       IN  loc' = [loc EXCEPT
                     !.sun_coord_cache = cache,
                     !.unsuppressed_planets = loc.visible_planets,
                     !.suppressed = suppress,
                     !.visible_stars = IF suppress THEN <<>> ELSE @,
                     !.visible_planets = IF suppress THEN <<>> ELSE @,
                     !.deep_sky = IF suppress THEN <<>> ELSE @]
    /\ qlog' = Append(qlog, Query("sun_twilight"))
    /\ ephem' = EphemContextExit(scope)
    /\ scope' = <<>>
    /\ pc' = "deep_sky"
    /\ UNCHANGED <<prefs_file, self, kernel_file, inp, snapshot, ref>>

\* lines 525-530
DeepSkyStep ==
    /\ pc = "deep_sky"
    /\ loc' = [loc EXCEPT !.deep_sky = GetDeepSky(self, inp)]
    /\ pc' = "riseset_enter"
    /\ UNCHANGED <<prefs_file, self, ephem, kernel_file, inp, scope, qlog, snapshot, ref>>

\* lines 532-536: _compute_rise_set_summary, whose get_sun runs inside a scope
RiseSetStep ==
    /\ pc = "riseset_body"
    /\ LET summary == ComputeRiseSetSummary(inp, loc.visible_planets, loc.moon_obj)
       IN  loc' = [loc EXCEPT !.events = IF summary = <<>> THEN <<>> ELSE summary[1]]
    /\ qlog' = Append(qlog, Query("sun_riseset"))
    /\ ephem' = EphemContextExit(scope)
    /\ scope' = <<>>
    /\ pc' = "events"
    /\ UNCHANGED <<prefs_file, self, kernel_file, inp, snapshot, ref>>

\* lines 537-542: _detect_conjunctions and the return.  Reading the local
\* sun_coord_cache while it is unbound raises UnboundLocalError, which the
\* except clause swallows together with the conjunction scan.
ComputeSnapshotReturn ==
    /\ pc = "events"
    /\ LET events == IF loc.sun_coord_cache = <<>> THEN loc.events
                     ELSE loc.events \o DetectConjunctions(loc.visible_planets,
                                            loc.moon_obj, loc.sun_coord_cache)
       IN  /\ loc' = [loc EXCEPT !.events = events]
           /\ snapshot' = <<[visible_stars    |-> loc.visible_stars,
                             visible_planets  |-> loc.visible_planets,
                             moon             |-> loc.moon_obj,
                             deep_sky_objects |-> loc.deep_sky,
                             events           |-> events]>>
    /\ ref' = IF ref # <<>> /\ ref[1].sky # inp
              THEN <<[ref[1] EXCEPT !.between = TRUE]>> ELSE ref
    /\ pc' = "idle"
    /\ UNCHANGED <<prefs_file, self, ephem, kernel_file, inp, scope, qlog>>

\* limiting magnitudes (tenths) set between calls
MagnitudesSet == {33, 60}

\* SkyModel.set_limiting_magnitude(mag_limit), between two calls of
\* compute_snapshot.  (history: a remembered call is forgotten when the
\* configuration changes)
SetLimitingMagnitude ==
    /\ pc = "idle"
    /\ \E mag_limit \in MagnitudesSet :
         self' = [self EXCEPT !.limiting_magnitude = mag_limit]
    /\ inp' = <<>>
    /\ loc' = InitLoc
    /\ qlog' = <<>>
    /\ snapshot' = <<>>
    /\ ref' = <<>>
    /\ UNCHANGED <<prefs_file, ephem, kernel_file, pc, scope>>

\* catalog_mode and custom_catalog as the catalog controls set them: the three
\* entries of the catalog control, the custom path empty, present or missing
CatalogSelections ==
    [catalog_mode : {"default", "rich", "custom"},
     custom_catalog : {"", "custom.csv", "missing.csv"}]

\* the selections made on the installation the snapshots are computed on
InstalledSelections ==
    {[catalog_mode |-> "default", custom_catalog |-> ""],
     [catalog_mode |-> "rich",    custom_catalog |-> ""],
     [catalog_mode |-> "custom",  custom_catalog |-> "missing.csv"]}

\* SkyModel.load_stars() on a model s and the files present: the model
\* afterwards.  When the loader raises, the assignment of line 148 is not
\* reached and self.stars stays as it was.
LoadStarsOn(s, files) ==
    LET loaded == LoadBrightStars(LoadStarsCatalog(s), files)
    IN  IF loaded = <<>> THEN s ELSE [s EXCEPT !.stars = loaded[1]]

\* SkyModel.load_stars(), after catalog_mode and custom_catalog were set,
\* between two calls of compute_snapshot; the snapshot of the call before was
\* computed on the earlier catalog and is followed no further
LoadStars ==
    /\ pc = "idle"
    /\ \E sel \in InstalledSelections :
         self' = LoadStarsOn([self EXCEPT !.catalog_mode = sel.catalog_mode,
                                          !.custom_catalog = sel.custom_catalog],
                             InstalledFiles)
    /\ inp' = <<>>
    /\ loc' = InitLoc
    /\ qlog' = <<>>
    /\ snapshot' = <<>>
    /\ ref' = <<>>
    /\ UNCHANGED <<prefs_file, ephem, kernel_file, pc, scope>>

\* the last call ran on the catalog and configuration the model has now (the
\* cached kernel path apart, which a call may set)
OnCurrentConfiguration ==
    /\ loc.self_at_call # <<>>
    /\ [self EXCEPT !.ephem_kernel_path = "None"]
         = [loc.self_at_call[1] EXCEPT !.ephem_kernel_path = "None"]

\* history: remember the input and the result of a finished Builtin-mode call;
\* between records that a call with another input has returned since
\* the skies whose snapshot is kept for comparison with a later call on them
RememberedSkies == {sky \in Skies : sky.id \in {BaseSky.id, "moon_query_fails"}}

Remember ==
    /\ pc = "idle"
    /\ snapshot # <<>>
    /\ inp \in RememberedSkies
    /\ OnCurrentConfiguration
    /\ ref = <<>>
    /\ ~self.high_accuracy_ephem
    /\ ref' = <<[sky |-> inp, snapshot |-> snapshot[1], between |-> FALSE]>>
    /\ UNCHANGED <<prefs_file, self, ephem, kernel_file, pc, inp, loc, scope, qlog, snapshot>>

Next ==
    \/ ComputeSnapshotBegin
    \/ EphemContextEnter
    \/ GetPlanetPositionsStep
    \/ MoonStep
    \/ TwilightStep
    \/ DeepSkyStep
    \/ RiseSetStep
    \/ ComputeSnapshotReturn
    \/ SetLimitingMagnitude
    \/ LoadStars
    \/ Remember

Spec == Init /\ [][Next]_vars

-----------------------------------------------------------------------------
(* Properties *)

\* a call has returned and the model is as the call left it
Returned == pc = "idle" /\ snapshot # <<>> /\ OnCurrentConfiguration

Snap == snapshot[1]

SeqRange(s) == {s[i] : i \in 1..Len(s)}

\* C1: every entry of visible_stars and of visible_planets of a returned snapshot
\* has alt_deg > 0 and az_deg in [0, 360), with refraction enabled or disabled.
C1_VisibleAboveHorizon ==
    Returned =>
        \A e \in SeqRange(Snap.visible_stars) \cup SeqRange(Snap.visible_planets) :
            e.alt_deg > 0 /\ 0 <= e.az_deg /\ e.az_deg < 360

\* what the transform service gives for the bodies of the call
PlanetOk(n) == n \notin inp.qfail /\ n \notin inp.tfail
Corrected(raw) == ApplyRefraction(self.apply_refraction, raw)
Names(s) == {s[i].name : i \in 1..Len(s)}
FilteredCatalog ==
    FilterCatalogByMag(self.stars,
        <<EffectiveLimMag(self.limiting_magnitude, self.light_pollution_bortle)>>)
DsoRows == IF inp.messier = <<>> THEN <<>>
           ELSE inp.messier[1] \o (IF inp.ngc = <<>> THEN <<>> ELSE inp.ngc[1])
SunAltitudeKnown == "sun_twilight" \notin inp.qfail /\ "sun" \notin inp.tfail

\* C2: with twilight suppression inactive, a star of the filtered catalog, a
\* planet, the Moon or a deep-sky object is in its visible collection if and only
\* if its refraction-corrected altitude, the one reported, is > 0.
C2_InclusionAgreesWithReportedAltitude ==
    (Returned /\ ~loc.suppressed) =>
        /\ \A i \in 1..Len(FilteredCatalog) :
             LET st == FilteredCatalog[i]
             IN  (\E e \in SeqRange(Snap.visible_stars) : e.id = st.id)
                    <=> Corrected(inp.starAlt[st.id]) > 0
        /\ \A i \in 1..Len(PLANETS) :
             PlanetOk(PLANETS[i]) =>
                ((Capitalize(PLANETS[i]) \in Names(Snap.visible_planets))
                    <=> Corrected(inp.body[PLANETS[i]].alt) > 0)
        /\ PlanetOk("moon") =>
                (("Moon" \in Names(Snap.visible_planets))
                    <=> Corrected(inp.body["moon"].alt) > 0)
        /\ \A i \in 1..Len(DsoRows) :
                (DsoRows[i].name \in Names(Snap.deep_sky_objects))
                    <=> Corrected(DsoRows[i].alt) > 0
        /\ \A e \in SeqRange(Snap.visible_stars) :
                e.alt_deg = Corrected(inp.starAlt[e.id])

\* C3: when a twilight threshold below 90 degrees is configured and the Sun's
\* altitude exceeds it, visible_stars, visible_planets and deep_sky_objects of
\* the snapshot are all empty; with a threshold of 90 or more nothing is suppressed.
C3_TwilightSuppressionClearsAll ==
    Returned =>
        /\ (/\ SunAltitudeKnown
            /\ self.twilight_sun_alt < 90000
            /\ inp.body["sun"].alt > self.twilight_sun_alt)
           => /\ Snap.visible_stars = <<>>
              /\ Snap.visible_planets = <<>>
              /\ Snap.deep_sky_objects = <<>>
        /\ self.twilight_sun_alt >= 90000
           => /\ Snap.visible_stars = VisibleStars(self, inp)
              /\ Snap.visible_planets = loc.unsuppressed_planets
              /\ Snap.deep_sky_objects = GetDeepSky(self, inp)

\* the events lines 532-540 compute from a list of visible planets
EventsFrom(planets) ==
    LET summary == ComputeRiseSetSummary(inp, planets, loc.moon_obj)
    IN  (IF summary = <<>> THEN <<>> ELSE summary[1])
        \o (IF loc.sun_coord_cache = <<>> THEN <<>>
            ELSE DetectConjunctions(planets, loc.moon_obj, loc.sun_coord_cache))

\* C4: under twilight suppression the rise/set records and the conjunction and
\* eclipse events are those computed from the unsuppressed visible planets and
\* Moon, i.e. the events the call returns with suppression disabled.
C4_EventsComputedBeforeSuppression ==
    (Returned /\ loc.suppressed) =>
        Snap.events = EventsFrom(loc.unsuppressed_planets)

MoonAt(vp) == {i \in 1..Len(vp) : vp[i].name = "Moon"}

\* C5: when the Moon's query and transform succeed, moon is non-null whether or
\* not the Moon is above the horizon; with twilight suppression inactive the Moon
\* is in visible_planets exactly when moon.alt_deg > 0, and then it is the first
\* element, equal to moon, and occurs once.
C5_MoonFirstWhenVisible ==
    Returned =>
        /\ PlanetOk("moon") => Snap.moon # <<>>
        /\ (~loc.suppressed /\ Snap.moon # <<>>) =>
             LET m  == Snap.moon[1]
                 at == MoonAt(Snap.visible_planets)
             IN  /\ (m.alt_deg > 0) <=> (at # {})
                 /\ (m.alt_deg > 0) => (at = {1} /\ Snap.visible_planets[1] = m)

C5_Witness ==
    /\ Returned
    /\ ~loc.suppressed
    /\ Snap.moon # <<>>
    /\ Snap.moon[1].alt_deg > 0
    /\ Len(Snap.visible_planets) >= 3
    /\ Snap.visible_planets[1].name = "Moon"

IsRiseSet(e) == "rise" \in DOMAIN e

\* C6: the events of every snapshot hold exactly one rise/set record per tracked
\* body: 'Sun' always and first, 'Moon' when moon is non-null, one per visible
\* planet, and no body twice.
C6_OneRiseSetRecordPerBody ==
    Returned =>
        LET rs == SelectSeq(Snap.events, IsRiseSet)
            expected == {"Sun"}
                        \cup (IF Snap.moon # <<>> THEN {"Moon"} ELSE {})
                        \cup (Names(Snap.visible_planets) \ {"Moon"})
        IN  /\ Len(rs) >= 1
            /\ rs[1].name = "Sun"
            /\ Names(rs) = expected
            /\ Len(rs) = Cardinality(expected)

KernelObtained ==
    self.high_accuracy_ephem /\ self.ephem_kernel_path # "None" /\ kernel_file

\* C7: all solar-system position queries of one compute_snapshot call run inside
\* a scope and use one and the same source: the kernel if it was obtained,
\* builtin otherwise.
C7_OneEphemerisSourcePerCall ==
    Returned =>
        \A q \in SeqRange(qlog) :
            /\ q.scoped
            /\ q.src = (IF KernelObtained THEN KernelPath ELSE Builtin)

ScopedQueries == SelectSeq(qlog, LAMBDA q : q.scoped)

\* C8: with high accuracy requested and no kernel obtained (every download raised
\* or gave a path with no file), every scope selects builtin, the computation is
\* never stopped by an error and a snapshot is returned.
C8_FetchFailureFallsBackToBuiltin ==
    (self.high_accuracy_ephem /\ ~kernel_file) =>
        /\ \A q \in SeqRange(ScopedQueries) : q.fetch = "failed" /\ q.src = Builtin
        /\ scope # <<>> => (scope[1].selected = Builtin /\ ephem = Builtin)
        /\ pc # "idle" => ENABLED Next
        /\ (pc = "idle" /\ qlog # <<>>) =>
                (snapshot # <<>> /\ Len(ScopedQueries) = Len(PLANETS) + 3)

C8_Witness ==
    /\ Returned
    /\ self.high_accuracy_ephem
    /\ ~kernel_file
    /\ self.ephem_kernel_path = KernelPath
    /\ Len(ScopedQueries) = Len(PLANETS) + 3
    /\ \A q \in SeqRange(ScopedQueries) : q.fetch = "failed"

\* C9: whenever an ephemeris scope is exited, normally or by an exception of the
\* query inside it, the process-wide selection is back at the value it had
\* before the scope was entered; when compute_snapshot returns, the selection is
\* the one in force when it was called.
C9_ScopeExitRestoresSelection ==
    [][ /\ (scope # <<>> /\ scope' = <<>>) => ephem' = scope[1].saved
        /\ (pc # "idle" /\ pc' = "idle") => (ephem' = loc.ephem_at_call /\ scope' = <<>>)
      ]_vars

C9_Witness ==
    /\ Returned
    /\ ephem = OtherEphem
    /\ "venus" \in inp.qfail
    /\ \E q \in SeqRange(qlog) : q.site = "venus" /\ q.src = KernelPath
    /\ \E q \in SeqRange(qlog) : q.site = "mercury" /\ q.src = Builtin

\* C10: in Builtin mode a call with the input of an earlier call, on the same
\* configuration and catalog, returns a snapshot equal to that call's, whatever
\* calls came in between; no step of a call changes the loaded catalog or a
\* configuration field of the model.
C10_BuiltinModeIsPure ==
    [][ /\ (pc # "idle" \/ pc' # "idle") =>
             /\ self' = [self EXCEPT !.ephem_kernel_path = self'.ephem_kernel_path]
             /\ ~self.high_accuracy_ephem => self' = self
        /\ (pc # "idle" /\ pc' = "idle" /\ ref # <<>> /\ ref[1].sky = inp)
              => snapshot' = <<ref[1].snapshot>>
      ]_vars

C10_Witness ==
    /\ Returned
    /\ ref # <<>>
    /\ ref[1].between
    /\ ref[1].sky = inp
    /\ ephem = OtherEphem
    /\ Snap.moon # <<>>

\* the bodies whose rise/set record the call can compute: the Sun unless get_sun
\* raises, the Moon when moon is set, the visible planets, each unless its own
\* sampling raises
RiseSetComputable ==
    ((IF "sun_riseset" \in inp.qfail THEN {} ELSE {"Sun"})
        \cup (IF Snap.moon # <<>> THEN {"Moon"} ELSE {})
        \cup Names(Snap.visible_planets))
    \ inp.risefail

\* C11: a failure while computing the rise/set record of one body, or while
\* obtaining the Sun's position, is isolated: the snapshot is returned with the
\* rise/set records of the other bodies and with the conjunctions of the
\* visible bodies.
C11_EventFailuresAreIsolated ==
    Returned =>
        /\ \A n \in RiseSetComputable : RiseSetRecord(inp, n) \in SeqRange(Snap.events)
        /\ \A c \in SeqRange(DetectConjunctions(Snap.visible_planets, Snap.moon, <<>>)) :
               c \in SeqRange(Snap.events)

\* C12: when get_planet_positions has gone through its loop, a planet whose
\* query or horizon transform failed is absent from the result, nothing was
\* raised, and every other planet is in the result, once and in the order of
\* PLANETS, exactly when its corrected altitude is > 0.
C12_FailedPlanetsAreOmitted ==
    /\ pc \in {"planet_enter", "planet_body"} => ENABLED Next
    /\ pc = "moon_enter" =>
         LET up == SelectSeq(PLANETS,
                     LAMBDA n : PlanetOk(n) /\ Corrected(inp.body[n].alt) > 0)
         IN  /\ Len(loc.visible_planets) = Len(up)
             /\ \A i \in 1..Len(up) :
                  /\ loc.visible_planets[i].name = Capitalize(up[i])
                  /\ loc.visible_planets[i].alt_deg = Corrected(inp.body[up[i]].alt)

C12_Witness ==
    /\ pc = "moon_enter"
    /\ "venus" \in inp.qfail
    /\ inp.body["venus"].alt > 0
    /\ "Venus" \notin Names(loc.visible_planets)
    /\ "Jupiter" \in Names(loc.visible_planets)

-----------------------------------------------------------------------------
(* night_sky/prefs.py *)

\* Python values: [ty, v, s] with ty the type, v the number (a bool as 0 or 1,
\* a float in tenths) and s the text of a str.
PyNone == [ty |-> "none", v |-> 0, s |-> ""]
PyBool(b) == [ty |-> "bool", v |-> IF b THEN 1 ELSE 0, s |-> ""]
PyInt(n) == [ty |-> "int", v |-> n, s |-> ""]
PyFloat(tenths) == [ty |-> "float", v |-> tenths, s |-> ""]
PyStr(text) == [ty |-> "str", v |-> 0, s |-> text]

\* DEFAULT_PREFS, one key of each type of default
DEFAULT_PREFS ==
    [show_dso            |-> PyBool(TRUE),
     lat_deg             |-> PyFloat(0),
     export_default_size |-> PyInt(2000),
     theme               |-> PyStr("night")]

\* dict.get(key, default)
DictGet(d, key, default) == IF key \in DOMAIN d THEN d[key] ELSE default

\* bool(val), float(val), int(val): <<>> when the conversion raises
CoerceBool(val) ==
    <<PyBool(IF val.ty = "str" THEN val.s # "" ELSE val.v # 0)>>

CoerceFloat(val) ==
    CASE val.ty = "none"  -> <<>>
      [] val.ty = "bool"  -> <<PyFloat(10 * val.v)>>
      [] val.ty = "int"   -> <<PyFloat(10 * val.v)>>
      [] val.ty = "float" -> <<val>>
      [] val.ty = "str"   -> IF val.s = "12" THEN <<PyFloat(120)>> ELSE <<>>

CoerceInt(val) ==
    CASE val.ty = "none"  -> <<>>
      [] val.ty = "bool"  -> <<PyInt(val.v)>>
      [] val.ty = "int"   -> <<val>>
      [] val.ty = "float" -> <<PyInt(IF val.v >= 0 THEN val.v \div 10
                                      ELSE 0 - ((0 - val.v) \div 10))>>
      [] val.ty = "str"   -> IF val.s = "12" THEN <<PyInt(12)>> ELSE <<>>

\* lines 62-68 of save_prefs: the value written for a key, by the type of its default
CoerceToDefault(default_val, val) ==
    CASE default_val.ty = "bool"  -> CoerceBool(val)
      [] default_val.ty = "float" -> CoerceFloat(val)
      [] default_val.ty = "int"   -> CoerceInt(val)
      [] OTHER                    -> <<val>>

\* json.dump and json.load on one value: the JSON literal and back
JsonDump(val) ==
    CASE val.ty = "none"  -> [lit |-> "null", num |-> 0, text |-> ""]
      [] val.ty = "bool"  -> [lit |-> IF val.v = 1 THEN "true" ELSE "false", num |-> 0, text |-> ""]
      [] val.ty = "int"   -> [lit |-> "integer", num |-> val.v, text |-> ""]
      [] val.ty = "float" -> [lit |-> "real", num |-> val.v, text |-> ""]
      [] val.ty = "str"   -> [lit |-> "string", num |-> 0, text |-> val.s]

JsonLoad(tok) ==
    CASE tok.lit = "null"    -> PyNone
      [] tok.lit = "true"    -> PyBool(TRUE)
      [] tok.lit = "false"   -> PyBool(FALSE)
      [] tok.lit = "integer" -> PyInt(tok.num)
      [] tok.lit = "real"    -> PyFloat(tok.num)
      [] tok.lit = "string"  -> PyStr(tok.text)

\* save_prefs(prefs): the file afterwards.  A conversion that raises leaves the
\* try block before the file is opened, and the except clause passes.
SavePrefs(file, prefs) ==
    LET out == [key \in DOMAIN DEFAULT_PREFS |->
                   CoerceToDefault(DEFAULT_PREFS[key],
                                   DictGet(prefs, key, DEFAULT_PREFS[key]))]
    IN  IF \E key \in DOMAIN out : out[key] = <<>>
        THEN file
        ELSE <<[key \in DOMAIN out |-> JsonDump(out[key][1])]>>

\* load_prefs(): the dict returned
LoadPrefs(file) ==
    IF file = <<>> THEN DEFAULT_PREFS
    ELSE LET data == [key \in DOMAIN file[1] |-> JsonLoad(file[1][key])]
         IN  [key \in DOMAIN DEFAULT_PREFS |-> DictGet(data, key, DEFAULT_PREFS[key])]

\* the keys and values of the dicts handed to save_prefs, and the files that
\* may exist before: none, or one written earlier and extended by hand
PrefArgKeys == DOMAIN DEFAULT_PREFS \cup {"extra"}
PrefArgValues ==
    {PyNone, PyBool(FALSE), PyInt(7), PyFloat(25), PyStr("dome"), PyStr("12")}
PrefsFilesBefore ==
    {<<>>,
     <<[show_dso            |-> JsonDump(PyBool(FALSE)),
        lat_deg             |-> JsonDump(PyFloat(515)),
        export_default_size |-> JsonDump(PyInt(1000)),
        theme               |-> JsonDump(PyStr("day")),
        extra               |-> JsonDump(PyInt(1))]>>}

-----------------------------------------------------------------------------
(* The helpers of SkyModel called on their own, each on arguments drawn from *)
(* a bounded set: pc names the helper that was called, self and inp hold its *)
(* arguments and snapshot its result.                                        *)

HelperInit ==
    /\ self = [stars                  |-> Catalog,
               limiting_magnitude     |-> 60,
               apply_refraction       |-> FALSE,
               twilight_sun_alt       |-> 90000,
               light_pollution_bortle |-> 4,
               high_accuracy_ephem    |-> FALSE,
               catalog_mode           |-> "default",
               custom_catalog         |-> "",
               ephem_kernel_path      |-> "None"]
    /\ ephem = Builtin
    /\ kernel_file = FALSE
    /\ pc = "ready"
    /\ inp = <<>>
    /\ loc = InitLoc
    /\ scope = <<>>
    /\ qlog = <<>>
    /\ snapshot = <<>>
    /\ ref = <<>>
    /\ prefs_file \in PrefsFilesBefore

\* limiting magnitudes (tenths) and the magnitudes of one more catalog entry
LimitingMagnitudes == {-48, -34, 0, 33, 38, 40, 60, 65}
ExtraMagnitudes == -52..72

\* SkyModel(limiting_magnitude, light_pollution_bortle) on a catalog of five
\* entries, then lines 455-457 of compute_snapshot
SnapshotFilterCall ==
    /\ pc = "ready"
    /\ \E lim \in LimitingMagnitudes, bortle \in 0..10, m \in ExtraMagnitudes :
         LET s == [self EXCEPT
                     !.stars = Catalog \o <<[id |-> 5, name |-> "E", ra_deg |-> 150,
                                             dec_deg |-> 10, mag |-> m]>>,
                     !.limiting_magnitude = lim,
                     !.light_pollution_bortle = ClampBortle(bortle)]
         IN  /\ self' = s
             /\ snapshot' = <<FilterCatalogByMag(s.stars,
                                <<EffectiveLimMag(s.limiting_magnitude,
                                                  s.light_pollution_bortle)>>)>>
    /\ pc' = "snapshot_filter"
    /\ UNCHANGED <<prefs_file, ephem, kernel_file, inp, loc, scope, qlog, ref>>

\* right ascensions (degrees) of the bodies handed to _detect_conjunctions
PlanetRa == {0, 4, 5, 90, 358}
MoonRa == {0, 3, 5, 7, 8, 90, 172, 173, 180, 188, 355}

HelperBody(name, ra) == [name |-> name, ra_deg |-> ra, dec_deg |-> 0]

\* the planets lists: none, Venus, Venus and Mars; compute_snapshot passes the
\* list with the Moon in front when the Moon is above the horizon
PlanetLists ==
    {<<>>}
    \cup {<<HelperBody("Venus", r)>> : r \in PlanetRa}
    \cup {<<HelperBody("Venus", r1), HelperBody("Mars", r2)>> : r1 \in PlanetRa, r2 \in PlanetRa}

\* self._detect_conjunctions(planets, moon_obj, sun_coord)
DetectConjunctionsCall ==
    /\ pc = "ready"
    /\ \E ps \in PlanetLists,
          moon_obj \in {<<>>} \cup {<<HelperBody("Moon", r)>> : r \in MoonRa},
          sun_coord \in {<<>>, <<HelperBody("Sun", 0)>>},
          moon_up \in BOOLEAN :
         LET planets == IF moon_up /\ moon_obj # <<>> THEN moon_obj \o ps ELSE ps
         IN  /\ (moon_obj = <<>> => ~moon_up)
             /\ inp' = [planets |-> planets, moon_obj |-> moon_obj, sun_coord |-> sun_coord]
             /\ snapshot' = <<DetectConjunctions(planets, moon_obj, sun_coord)>>
    /\ pc' = "detect_conjunctions"
    /\ UNCHANGED <<prefs_file, self, ephem, kernel_file, loc, scope, qlog, ref>>

\* sampled altitudes (millidegrees) of a coordinate over the window
NSamples == 4
SampleAlts == {-2000, -1000, 0, 1000, 2000}

\* self._compute_rise_set_for_coord(coord, lat_deg, lon_deg, dt_utc), on the
\* altitudes the transform gives at the samples
RiseSetForCoordCall ==
    /\ pc = "ready"
    /\ \E alts \in [1..NSamples -> SampleAlts] :
         /\ inp' = [alts |-> alts]
         /\ snapshot' = <<RiseSetForCoord(alts)>>
    /\ pc' = "rise_set"
    /\ UNCHANGED <<prefs_file, self, ephem, kernel_file, loc, scope, qlog, ref>>

\* right ascensions of the Sun for the phase calculator; the Moon's range over
\* every whole degree
SunRa == {0, 280}

\* self._moon_phase(times), on the positions get_body gives (or its failure)
MoonPhaseCall ==
    /\ pc = "ready"
    /\ \E sun_ra \in SunRa, moon_ra \in 0..359, queries_ok \in BOOLEAN :
         LET sky == [body |-> [sun  |-> HelperBody("Sun", sun_ra),
                               moon |-> HelperBody("Moon", moon_ra)]]
         IN  /\ inp' = [sky |-> sky, queries_ok |-> queries_ok]
             /\ snapshot' = <<MoonPhase(sky, queries_ok)>>
    /\ pc' = "moon_phase"
    /\ UNCHANGED <<prefs_file, self, ephem, kernel_file, loc, scope, qlog, ref>>

\* raw altitudes (millidegrees): every whole degree from -3 to 92 and values
\* next to the limits -1.0, 0.0 and 90.0 of the corrector
RawAltitudes ==
    {d * 1000 : d \in -3..92}
    \cup {-1001, -999, -500, -1, 1, 5, 500, 89999, 90001}

\* self._apply_refraction(alt_deg)
ApplyRefractionCall ==
    /\ pc = "ready"
    /\ \E enabled \in BOOLEAN, alt \in RawAltitudes :
         /\ self' = [self EXCEPT !.apply_refraction = enabled]
         /\ inp' = [alt_deg |-> alt]
         /\ snapshot' = <<ApplyRefraction(enabled, alt)>>
    /\ pc' = "apply_refraction"
    /\ UNCHANGED <<prefs_file, ephem, kernel_file, loc, scope, qlog, ref>>

-----------------------------------------------------------------------------
(* SkyModel._normalize_time *)

\* A datetime is [wall, tzinfo]: the wall-clock reading in minutes and the
\* optional UTC offset of its zone in minutes (<<>> for a naive datetime).
\* local is the UTC offset of the system's zone.

\* a plausible slip: a naive datetime is labelled UTC without conversion
NormalizeTimeNaiveIsUtc(dt, local) ==
    IF dt.tzinfo = <<>>
    THEN [wall |-> dt.wall, tzinfo |-> <<0>>]
    ELSE [wall |-> dt.wall - dt.tzinfo[1], tzinfo |-> <<0>>]

\* lines 324-329: astimezone() attaches the system zone to a naive datetime;
\* astimezone(timezone.utc) re-expresses the instant in UTC
NormalizeTime(dt, local) ==
    IF dt.tzinfo = <<>>
    THEN LET dt_local == [wall |-> dt.wall, tzinfo |-> <<local>>]
         IN  [wall |-> dt_local.wall - dt_local.tzinfo[1], tzinfo |-> <<0>>]
    ELSE [wall |-> dt.wall - dt.tzinfo[1], tzinfo |-> <<0>>]

\* wall-clock readings (minutes) and UTC offsets (minutes) of the timestamps
WallMinutes == {0, 59, 60, 725, 1439, 1440}
UtcOffsets == {-300, 0, 60, 330}

\* self._normalize_time(dt_utc)
NormalizeTimeCall ==
    /\ pc = "ready"
    /\ \E wall \in WallMinutes, tz \in {<<>>} \cup {<<o>> : o \in UtcOffsets},
          local \in UtcOffsets :
         LET dt == [wall |-> wall, tzinfo |-> tz]
         IN  /\ inp' = [dt |-> dt, local |-> local]
             /\ snapshot' = <<NormalizeTime(dt, local)>>
    /\ pc' = "normalize_time"
    /\ UNCHANGED <<prefs_file, self, ephem, kernel_file, loc, scope, qlog, ref>>

\* save_prefs(prefs)
SavePrefsCall ==
    /\ pc = "ready"
    /\ \E keys \in SUBSET PrefArgKeys :
         \E prefs \in [keys -> PrefArgValues] :
             /\ inp' = [prefs |-> prefs, file_before |-> prefs_file]
             /\ prefs_file' = SavePrefs(prefs_file, prefs)
    /\ pc' = "prefs_saved"
    /\ UNCHANGED <<self, ephem, kernel_file, loc, scope, qlog, snapshot, ref>>

\* load_prefs(), after a save_prefs
LoadPrefsCall ==
    /\ pc = "prefs_saved"
    /\ snapshot' = <<LoadPrefs(prefs_file)>>
    /\ pc' = "prefs_loaded"
    /\ UNCHANGED <<self, ephem, kernel_file, inp, loc, scope, qlog, ref, prefs_file>>


\* lines 196-202 of _compute_rise_set_for_coord: the sample times, in minutes.
\* dt_utc.replace(minute=0, second=0, microsecond=0) floors to the hour.
ReplaceMinuteZero(dt_utc) == (dt_utc \div 60) * 60
SampleTimes(dt_utc, step_minutes) ==
    LET start == ReplaceMinuteZero(dt_utc) - 12 * 60
    IN  [k \in 1..((24 * 60) \div step_minutes + 1) |-> start + (k - 1) * step_minutes]

\* instants (minutes after an epoch) at several minutes of the hour, and steps
SampleInstants == {h * 60 + m : h \in {12, 30, 47}, m \in {0, 1, 9, 10, 30, 59}}
StepMinutes == {7, 10, 60}

\* the sampling of self._compute_rise_set_for_coord(coord, lat_deg, lon_deg, dt_utc, step_minutes)
SampleTimesCall ==
    /\ pc = "ready"
    /\ \E dt_utc \in SampleInstants, step_minutes \in StepMinutes :
         /\ inp' = [dt_utc |-> dt_utc, step_minutes |-> step_minutes]
         /\ snapshot' = <<SampleTimes(dt_utc, step_minutes)>>
    /\ pc' = "sample_times"
    /\ UNCHANGED <<prefs_file, self, ephem, kernel_file, loc, scope, qlog, ref>>


\* illuminated fractions (scale FX): the bounds of the bands, their neighbours
\* and values inside each band
PhaseFractions ==
    {0, 1, 150, 299, 300, 301, 1000, 2499, 2500, 2501, 2600, 2699, 2700, 2701,
     4000, 4799, 4800, 4801, 5000, 5199, 5200, 5201, 6000, 7299, 7300, 7301,
     7500, 7699, 7700, 7701, 9000, 9699, 9700, 9701, 9999, 10000}

\* the naming of lines 346-364 on a fraction
PhaseNameCall ==
    /\ pc = "ready"
    /\ \E fraction \in PhaseFractions :
         /\ inp' = [fraction |-> fraction]
         /\ snapshot' = <<PhaseName(fraction)>>
    /\ pc' = "phase_name"
    /\ UNCHANGED <<prefs_file, self, ephem, kernel_file, loc, scope, qlog, ref>>

\* the catalog controls on any data directory: catalog_mode and custom_catalog
\* are set, then SkyModel.load_stars() runs
LoadStarsCall ==
    /\ pc = "ready"
    /\ \E sel \in CatalogSelections, files \in DataFiles :
         /\ self' = LoadStarsOn([self EXCEPT !.catalog_mode = sel.catalog_mode,
                                             !.custom_catalog = sel.custom_catalog],
                                files)
         /\ inp' = [files |-> files]
    /\ pc' = "stars_loaded"
    /\ UNCHANGED <<prefs_file, ephem, kernel_file, loc, scope, qlog, snapshot, ref>>

HelperNext ==
    \/ SnapshotFilterCall
    \/ LoadStarsCall
    \/ PhaseNameCall
    \/ SampleTimesCall
    \/ SavePrefsCall
    \/ LoadPrefsCall
    \/ NormalizeTimeCall
    \/ ApplyRefractionCall
    \/ MoonPhaseCall
    \/ RiseSetForCoordCall
    \/ DetectConjunctionsCall

HelperSpec == HelperInit /\ [][HelperNext]_vars

\* the effective limit in exact arithmetic, in tenths
ExactLimit(limiting_magnitude, bortle) ==
    Max(-50, limiting_magnitude - 2 * Max(0, bortle - 1))

\* C13: the filter of compute_snapshot retains exactly the entries with
\* magnitude <= max(-5.0, limiting_magnitude - 0.2 * max(0, bortle - 1)); for
\* Bortle 9 and limiting magnitude 6.0 the limit is 4.4 and of the magnitudes
\* 1.0, 4.0, 4.5, 7.0 exactly 1.0 and 4.0 are retained.
C13_FilterRetainsUpToEffectiveLimit ==
    pc = "snapshot_filter" =>
        LET limit == ExactLimit(self.limiting_magnitude, self.light_pollution_bortle)
        IN  /\ snapshot[1] = SelectSeq(self.stars, LAMBDA s : s.mag <= limit)
            /\ (self.limiting_magnitude = 60 /\ self.light_pollution_bortle = 9) =>
                 /\ limit = 44
                 /\ {s.mag : s \in SeqRange(snapshot[1])} \cap {10, 40, 45, 70} = {10, 40}

\* what the filter of compute_snapshot retains of the catalog at Bortle level b
RetainedAt(b) ==
    FilterCatalogByMag(self.stars, <<EffectiveLimMag(self.limiting_magnitude, b)>>)

\* C14: for Bortle levels b1 <= b2 in 1..9 and the same limiting magnitude and
\* catalog, the entries retained at b2 are among those retained at b1, also
\* where the -5.0 floor applies.
C14_BortleNeverEnlargesCatalog ==
    pc = "snapshot_filter" =>
        \A b2 \in self.light_pollution_bortle..9 :
            SeqRange(RetainedAt(b2)) \subseteq SeqRange(snapshot[1])

\* an entry retained at Bortle 1 and lost at Bortle 9, where the floor applies
C14_Witness ==
    /\ pc = "snapshot_filter"
    /\ self.light_pollution_bortle = 1
    /\ EffectiveLimMag(self.limiting_magnitude, 9) = FloatOfTenths(-50)
    /\ EffectiveLimMag(self.limiting_magnitude, 1) # FloatOfTenths(-50)
    /\ \E s \in SeqRange(snapshot[1]) : s \notin SeqRange(RetainedAt(9))

\* the list of bodies _detect_conjunctions scans, and its conjunction events
ScannedBodies == inp.planets \o inp.moon_obj
ConjunctionEvents == SelectSeq(snapshot[1], LAMBDA e : e.name = "Conjunction")
ScannedPairs == {p \in (1..Len(ScannedBodies)) \X (1..Len(ScannedBodies)) : p[1] < p[2]}
PairSeparation(p) == Separation(ScannedBodies[p[1]], ScannedBodies[p[2]])

\* C15: a conjunction is reported for a pair of scanned bodies iff their
\* separation is < 5 degrees; the event names both bodies and carries the
\* separation; every conjunction event comes from such a pair.  So two bodies at
\* the same position give a conjunction with separation 0, two bodies 90
\* degrees apart none.
C15_ConjunctionIffCloserThanFiveDegrees ==
    pc = "detect_conjunctions" =>
        /\ \A p \in ScannedPairs :
             (PairSeparation(p) < 5) <=>
                 (\E e \in SeqRange(ConjunctionEvents) :
                      /\ e.name_a = ScannedBodies[p[1]].name
                      /\ e.name_b = ScannedBodies[p[2]].name
                      /\ e.separation_deg = PairSeparation(p))
        /\ Len(ConjunctionEvents) = Cardinality({p \in ScannedPairs : PairSeparation(p) < 5})

C15_Witness ==
    /\ pc = "detect_conjunctions"
    /\ \E p \in ScannedPairs : PairSeparation(p) = 0
    /\ \E p \in ScannedPairs : PairSeparation(p) = 90
    /\ \E e \in SeqRange(ConjunctionEvents) : e.separation_deg = 0
    /\ Len(ConjunctionEvents) = 1

WindowEvents(name) == SelectSeq(snapshot[1], LAMBDA e : e.name = name)
SunMoonSeparation == Separation(inp.sun_coord[1], inp.moon_obj[1])

\* C16: when the Sun's and the Moon's positions are both given, whatever the
\* conjunction scan reports, there is a 'Possible solar eclipse window' event
\* iff the Sun-Moon separation is < 8 degrees and a 'Possible lunar eclipse
\* window' event iff |separation - 180| < 8 degrees, each at most once and never
\* both.
C16_EclipseWindows ==
    (pc = "detect_conjunctions" /\ inp.sun_coord # <<>> /\ inp.moon_obj # <<>>) =>
        LET solar == WindowEvents("Possible solar eclipse window")
            lunar == WindowEvents("Possible lunar eclipse window")
        IN  /\ Len(solar) = (IF SunMoonSeparation < 8 THEN 1 ELSE 0)
            /\ Len(lunar) = (IF Abs(SunMoonSeparation - 180) < 8 THEN 1 ELSE 0)
            /\ \A e \in SeqRange(solar) : e.separation_deg = SunMoonSeparation
            /\ \A e \in SeqRange(lunar) : e.separation_deg = Abs(SunMoonSeparation - 180)
            /\ ~(solar # <<>> /\ lunar # <<>>)

\* a lunar window next to a conjunction of two planets
C16_Witness ==
    /\ pc = "detect_conjunctions"
    /\ inp.sun_coord # <<>>
    /\ inp.moon_obj # <<>>
    /\ SunMoonSeparation = 173
    /\ WindowEvents("Possible lunar eclipse window") # <<>>
    /\ WindowEvents("Possible solar eclipse window") = <<>>
    /\ ConjunctionEvents # <<>>

AllSamples(P(_)) == \A i \in 1..Len(inp.alts) : P(inp.alts[i])
AboveHorizon(a) == a > 0
BelowHorizon(a) == a < 0

\* C17: for a coordinate above 0 at every sample the solver returns rise = None,
\* set = None and the largest sampled altitude as culmination; rise and set are
\* None as well for a coordinate below 0 at every sample.
C17_NoCrossingNoRiseNoSet ==
    pc = "rise_set" =>
        /\ AllSamples(AboveHorizon) =>
             /\ snapshot[1].rise = <<>>
             /\ snapshot[1].set = <<>>
             /\ \E i \in 1..Len(inp.alts) : snapshot[1].culminate = inp.alts[i]
             /\ \A i \in 1..Len(inp.alts) : snapshot[1].culminate >= inp.alts[i]
        /\ AllSamples(BelowHorizon) =>
             /\ snapshot[1].rise = <<>>
             /\ snapshot[1].set = <<>>

\* a circumpolar coordinate whose altitude goes up and down
C17_Witness ==
    /\ pc = "rise_set"
    /\ AllSamples(AboveHorizon)
    /\ inp.alts[1] < inp.alts[2]
    /\ inp.alts[3] > inp.alts[4]
    /\ snapshot[1] = [rise |-> <<>>, set |-> <<>>, culminate |-> 2000]

\* C18: the phase fraction lies in [0, 1] (0..FX); when the position query
\* fails the phase calculator returns fraction 0.0, waxing true and the name
\* 'New Moon' instead of raising.
C18_PhaseFractionBoundedAndDefaulted ==
    pc = "moon_phase" =>
        /\ 0 <= snapshot[1].fraction
        /\ snapshot[1].fraction <= FX
        /\ ~inp.queries_ok =>
             snapshot[1] = [fraction |-> 0, name |-> "New Moon", waxing |-> TRUE]

\* the query fails where the positions would have given a waning full Moon
C18_Witness ==
    /\ pc = "moon_phase"
    /\ ~inp.queries_ok
    /\ MoonPhase(inp.sky, TRUE).fraction = FX
    /\ ~MoonPhase(inp.sky, TRUE).waxing
    /\ snapshot[1].fraction = 0
    /\ snapshot[1].waxing

\* C19: with refraction enabled, the corrected altitude of every raw altitude
\* in (-1, 90) degrees is greater than or equal to the raw altitude.
C19_RefractionNeverLowers ==
    (/\ pc = "apply_refraction"
     /\ self.apply_refraction
     /\ -1000 < inp.alt_deg
     /\ inp.alt_deg < 90000) => snapshot[1] >= inp.alt_deg

\* the position of the catalog entry with a given id
CatalogIndex(id) == CHOOSE i \in 1..Len(self.stars) : self.stars[i].id = id

\* Moon, Mercury, Venus, Mars, Jupiter, Saturn
PlanetRank(name) ==
    IF name = "Moon" THEN 0
    ELSE CHOOSE i \in 1..Len(PLANETS) : Capitalize(PLANETS[i]) = name

\* C20: visible_stars is a subsequence of the loaded catalog, in catalog order;
\* the filter returns the retained entries in their input order; visible_planets
\* holds the Moon first, if visible, then the visible planets in the order
\* Mercury, Venus, Mars, Jupiter, Saturn.
C20_CatalogAndPlanetOrder ==
    Returned =>
        /\ \A i \in 1..Len(Snap.visible_stars) :
             LET v == Snap.visible_stars[i]
                 c == self.stars[CatalogIndex(v.id)]
             IN  /\ \E k \in 1..Len(self.stars) : self.stars[k].id = v.id
                 /\ <<v.name, v.ra_deg, v.dec_deg, v.mag>> = <<c.name, c.ra_deg, c.dec_deg, c.mag>>
        /\ \A i, j \in 1..Len(Snap.visible_stars) :
             i < j => CatalogIndex(Snap.visible_stars[i].id) < CatalogIndex(Snap.visible_stars[j].id)
        /\ \A i, j \in 1..Len(FilteredCatalog) :
             i < j => CatalogIndex(FilteredCatalog[i].id) < CatalogIndex(FilteredCatalog[j].id)
        /\ \A i, j \in 1..Len(Snap.visible_planets) :
             i < j => PlanetRank(Snap.visible_planets[i].name)
                        < PlanetRank(Snap.visible_planets[j].name)

\* a fainter star listed before a brighter one, and the Moon before three planets
C20_Witness ==
    /\ Returned
    /\ Len(Snap.visible_stars) >= 2
    /\ Snap.visible_stars[1].mag > Snap.visible_stars[2].mag
    /\ Len(Snap.visible_planets) = 4
    /\ Snap.visible_planets[1].name = "Moon"
    /\ Snap.visible_planets[2].name = "Venus"
    /\ Snap.visible_planets[4].name = "Jupiter"

\* the instant a datetime denotes, in minutes of UTC: its wall-clock reading
\* less the offset of its zone, a naive datetime being in the system's zone
InstantOf(dt, local) ==
    dt.wall - (IF dt.tzinfo = <<>> THEN local ELSE dt.tzinfo[1])

\* C21: the normalized timestamp is zone-aware UTC and denotes the instant of
\* the argument, an aware argument by its own zone and a naive one as local
\* time; normalizing the result again returns it unchanged.
C21_NormalizeTimeGivesOneUtcInstant ==
    pc = "normalize_time" =>
        /\ snapshot[1].tzinfo = <<0>>
        /\ InstantOf(snapshot[1], inp.local) = InstantOf(inp.dt, inp.local)
        /\ NormalizeTime(snapshot[1], inp.local) = snapshot[1]

\* a naive reading in a zone east of Greenwich
C21_Witness ==
    /\ pc = "normalize_time"
    /\ inp.dt.tzinfo = <<>>
    /\ inp.local = 330
    /\ inp.dt.wall = 60
    /\ snapshot[1] = [wall |-> -270, tzinfo |-> <<0>>]

\* C22: after save_prefs(prefs) and load_prefs(), every known key of prefs is
\* returned with a value of the type of its default, the saved value converted
\* to that type where it converts; every known key absent from prefs is
\* returned with its default; a key outside DEFAULT_PREFS is neither written
\* nor returned.
C22_PrefsRoundTrip ==
    pc = "prefs_loaded" =>
        LET saved  == inp.prefs
            loaded == snapshot[1]
        IN  /\ DOMAIN loaded = DOMAIN DEFAULT_PREFS
            /\ \A key \in DOMAIN DEFAULT_PREFS :
                 IF key \in DOMAIN saved
                 THEN /\ loaded[key].ty = DEFAULT_PREFS[key].ty
                      /\ CoerceToDefault(DEFAULT_PREFS[key], saved[key]) # <<>> =>
                           loaded[key] = CoerceToDefault(DEFAULT_PREFS[key], saved[key])[1]
                 ELSE loaded[key] = DEFAULT_PREFS[key]
            /\ prefs_file # inp.file_before =>
                 DOMAIN prefs_file[1] = DOMAIN DEFAULT_PREFS

\* the 0-based indices i of the samples with an upward (downward) crossing
\* between sample i - 1 and sample i
UpwardCrossings(alts) ==
    {i \in 1..(Len(alts) - 1) : alts[i] <= 0 /\ 0 < alts[i + 1]}
DownwardCrossings(alts) ==
    {i \in 1..(Len(alts) - 1) : alts[i] >= 0 /\ 0 > alts[i + 1]}
SetMin(S) == CHOOSE x \in S : \A y \in S : x <= y

\* C23: the solver reports as rise the time of the first upward zero-crossing
\* of the sampled altitudes and as set the time of the first downward crossing
\* (None when there is none); of several crossings of one direction only the
\* first is reported.
C23_FirstCrossingReported ==
    pc = "rise_set" =>
        LET up   == UpwardCrossings(inp.alts)
            down == DownwardCrossings(inp.alts)
        IN  /\ snapshot[1].rise = (IF up = {} THEN <<>> ELSE <<SetMin(up)>>)
            /\ snapshot[1].set  = (IF down = {} THEN <<>> ELSE <<SetMin(down)>>)

-----------------------------------------------------------------------------
(* Two compute_snapshot computations in one process, without a lock.  Each
   runs its ephemeris scopes (with self._ephem_context(): get_body(...)) and
   the two queries of _moon_phase, which are made outside any scope, on its
   own SkyModel; solar_system_ephemeris is the one process-wide selection.
   Here self, pc, loc, scope and qlog hold one value per computation. *)

\* computation 1 runs in Builtin mode, computation 2 in high-accuracy mode
Computations == {1, 2}

\* scopes one computation opens, one position query in each
ScopesPerCall == 2

\* the scope of the Moon query (line 492), after which _moon_phase is called
\* (line 495): two more scopes follow it, those of lines 515 and 220
MoonScope == Max(1, ScopesPerCall - 2)

ConcInit ==
    /\ self = [c \in Computations |->
                 [high_accuracy_ephem |-> (c = 2), ephem_kernel_path |-> "None"]]
    /\ ephem \in {Builtin, OtherEphem}
    /\ kernel_file = FALSE
    /\ pc = [c \in Computations |-> "scope_enter"]
    /\ inp = [ephem_before |-> ephem]
    /\ loc = [c \in Computations |-> [scopes_done |-> 0, kernel |-> <<>>]]
    /\ scope = [c \in Computations |-> <<>>]
    /\ qlog = [c \in Computations |-> <<>>]
    /\ snapshot = <<>>
    /\ ref = [overlapped |-> FALSE]
    /\ prefs_file = <<>>

\* line 186, kernel = self._ensure_ephem_kernel(), in computation c: the
\* download has returned and the path is stored; the selection is not yet made
ConcEnsureEphemKernel(c) ==
    /\ pc[c] = "scope_enter"
    /\ self[c].high_accuracy_ephem
    /\ loc[c].kernel = <<>>
    /\ \E outcome \in FetchOutcomes :
         LET k == EnsureEphemKernel(self[c], kernel_file, outcome)
         IN  /\ (k.fetch = "none" => outcome = "ok")
             /\ self' = [self EXCEPT ![c].ephem_kernel_path = k.path]
             /\ kernel_file' = k.file
             /\ loc' = [loc EXCEPT ![c].kernel = <<k.ret>>]
    /\ UNCHANGED <<prefs_file, ephem, pc, inp, scope, qlog, snapshot, ref>>

\* lines 187-191, with solar_system_ephemeris.set(...), up to the yield, in
\* computation c.  set keeps the value it replaces in the context object.
ConcScopeEnter(c) ==
    /\ pc[c] = "scope_enter"
    /\ self[c].high_accuracy_ephem => loc[c].kernel # <<>>
    /\ LET kernel   == IF self[c].high_accuracy_ephem THEN loc[c].kernel[1] ELSE "None"
           selected == EphemContextSelected(self[c], kernel, kernel_file)
       IN  /\ scope' = [scope EXCEPT ![c] = <<[saved |-> ephem, selected |-> selected]>>]
           /\ ephem' = selected
    /\ loc' = [loc EXCEPT ![c].kernel = <<>>]
    /\ pc' = [pc EXCEPT ![c] = "scope_body"]
    /\ ref' = [overlapped |-> ref.overlapped \/ \E d \in Computations \ {c} : scope[d] # <<>>]
    /\ UNCHANGED <<prefs_file, self, kernel_file, inp, qlog, snapshot>>

\* get_body(...) inside the scope: the query reads the process-wide selection
ConcQuery(c) ==
    /\ pc[c] = "scope_body"
    /\ qlog' = [qlog EXCEPT ![c] = Append(@, [src |-> ephem, scoped |-> TRUE,
                                               selected |-> scope[c][1].selected])]
    /\ pc' = [pc EXCEPT ![c] = "scope_exit"]
    /\ UNCHANGED <<prefs_file, self, ephem, kernel_file, inp, loc, scope, snapshot, ref>>

\* the end of the with-block: the context object puts back the value it kept
ConcScopeExit(c) ==
    /\ pc[c] = "scope_exit"
    /\ ephem' = EphemContextExit(scope[c])
    /\ scope' = [scope EXCEPT ![c] = <<>>]
    /\ loc' = [loc EXCEPT ![c].scopes_done = @ + 1]
    /\ pc' = [pc EXCEPT ![c] = IF loc[c].scopes_done + 1 = MoonScope THEN "phase_sun"
                                ELSE IF loc[c].scopes_done + 1 < ScopesPerCall
                                THEN "scope_enter" ELSE "done"]
    /\ UNCHANGED <<prefs_file, self, kernel_file, inp, qlog, snapshot, ref>>

\* lines 334-335, get_body('sun', times) and get_body('moon', times) in
\* _moon_phase, called at line 495 after the Moon's scope was left: no scope
\* of the computation is open
ConcPhaseQuery(c) ==
    /\ pc[c] \in {"phase_sun", "phase_moon"}
    /\ qlog' = [qlog EXCEPT ![c] = Append(@, [src |-> ephem, scoped |-> FALSE,
                                               selected |-> "None"])]
    /\ pc' = [pc EXCEPT ![c] = IF pc[c] = "phase_sun" THEN "phase_moon"
                                ELSE IF loc[c].scopes_done < ScopesPerCall
                                THEN "scope_enter" ELSE "done"]
    /\ UNCHANGED <<prefs_file, self, ephem, kernel_file, inp, loc, scope, snapshot, ref>>

ConcNext ==
    \/ \E c \in Computations : ConcEnsureEphemKernel(c)
    \/ \E c \in Computations : ConcScopeEnter(c)
    \/ \E c \in Computations : ConcQuery(c)
    \/ \E c \in Computations : ConcScopeExit(c)
    \/ \E c \in Computations : ConcPhaseQuery(c)

ConcSpec == ConcInit /\ [][ConcNext]_vars

\* C24: when two computations with different ephemeris modes run concurrently
\* without a lock, every position query uses the source its own scope selected,
\* and once both have finished the process-wide selection is the one in force
\* before either started.
C24_ConcurrentScopesKeepTheirSource ==
    /\ \A c \in Computations : \A i \in 1..Len(qlog[c]) :
         qlog[c][i].scoped /\ qlog[c][i].src = qlog[c][i].selected
    /\ (\A c \in Computations : pc[c] = "done") => ephem = inp.ephem_before

\* C25: the samples start at instant - 12h floored to the hour and follow each
\* other at step_minutes; with the default step of 10 minutes there are 145
\* and every time from the first sample up to instant + 12h lies between two
\* consecutive samples, whatever the minute of the hour of the instant.
C25_WindowCoversTwelveHoursEachSide ==
    pc = "sample_times" =>
        LET times == snapshot[1]
            n     == Len(times)
        IN  /\ times[1] = ((inp.dt_utc - 12 * 60) \div 60) * 60
            /\ \A k \in 1..(n - 1) : times[k + 1] = times[k] + inp.step_minutes
            /\ inp.step_minutes = 10 =>
                 /\ n = 145
                 /\ \A t \in times[1]..(inp.dt_utc + 12 * 60) :
                      \E k \in 1..(n - 1) : times[k] <= t /\ t <= times[k + 1]

\* the model holds a cached kernel path whose file exists
CachedKernel == self.ephem_kernel_path # "None" /\ kernel_file

\* C26: a scope calls the fetch service on entry if and only if high-accuracy
\* mode is enabled and the model holds no cached kernel path whose file exists;
\* in Builtin mode no scope fetches, and after a successful fetch every later
\* scope of the model selects the cached path without fetching.
C26_FetchOnlyWithoutCachedKernel ==
    /\ [](~self.high_accuracy_ephem =>
            /\ \A q \in SeqRange(qlog) : q.fetch = "none"
            /\ ~CachedKernel)
    /\ [](\A i, j \in 1..Len(ScopedQueries) :
            (i < j /\ ScopedQueries[i].fetch = "ok") =>
                (ScopedQueries[j].fetch = "none" /\ ScopedQueries[j].src = KernelPath))
    /\ [][ (scope = <<>> /\ scope' # <<>>) =>
             /\ (scope'[1].fetch # "none") <=> (self.high_accuracy_ephem /\ ~CachedKernel)
             /\ (self.high_accuracy_ephem /\ CachedKernel) =>
                  (scope'[1].selected = self.ephem_kernel_path /\ self' = self)
             /\ (CachedKernel => CachedKernel')
       ]_vars

\* a call whose first download failed and whose second succeeded: the other
\* scopes of the call reuse the path
C26_Witness ==
    /\ Returned
    /\ Len(ScopedQueries) = Len(PLANETS) + 3
    /\ ScopedQueries[1].fetch = "failed"
    /\ ScopedQueries[2].fetch = "ok"
    /\ \A i \in 3..Len(ScopedQueries) :
         ScopedQueries[i].fetch = "none" /\ ScopedQueries[i].src = KernelPath

\* C28: the phase name agrees with the waxing flag: 'Waxing crescent', 'First
\* quarter' and 'Waxing gibbous' are returned only with waxing true, 'Waning
\* gibbous', 'Last quarter' and 'Waning crescent' only with waxing false.
C28_PhaseNameAgreesWithWaxing ==
    pc = "moon_phase" =>
        /\ snapshot[1].name \in {"Waxing crescent", "First quarter", "Waxing gibbous"}
              => snapshot[1].waxing
        /\ snapshot[1].name \in {"Waning gibbous", "Last quarter", "Waning crescent"}
              => ~snapshot[1].waxing

SnapshotConjunctions == SelectSeq(snapshot[1].events, LAMBDA e : e.name = "Conjunction")

\* C27: every conjunction event of a snapshot names two distinct bodies, and no
\* two conjunction events of a snapshot name the same unordered pair of bodies,
\* also when the Moon is above the horizon and so both in visible_planets and
\* in moon.
C27_ConjunctionsNameDistinctPairsOnce ==
    Returned =>
        /\ \A e \in SeqRange(SnapshotConjunctions) : e.name_a # e.name_b
        /\ \A i, j \in 1..Len(SnapshotConjunctions) :
             i # j => {SnapshotConjunctions[i].name_a, SnapshotConjunctions[i].name_b}
                        # {SnapshotConjunctions[j].name_a, SnapshotConjunctions[j].name_b}

\* C30: the corrector returns its input altitude when refraction is disabled,
\* when the altitude is below -1.0 degrees and when it is above 90.0 degrees;
\* an altitude it changes lies in [-1.0, 90.0] and refraction is enabled.
C30_RefractionNoOpOutsideRange ==
    pc = "apply_refraction" =>
        /\ ~self.apply_refraction => snapshot[1] = inp.alt_deg
        /\ inp.alt_deg < -1000 => snapshot[1] = inp.alt_deg
        /\ inp.alt_deg > 90000 => snapshot[1] = inp.alt_deg
        /\ snapshot[1] # inp.alt_deg =>
             (self.apply_refraction /\ -1000 <= inp.alt_deg /\ inp.alt_deg <= 90000)

\* with refraction enabled, 90.001 degrees comes back as it is and 90.0 does not
C30_Witness ==
    /\ pc = "apply_refraction"
    /\ self.apply_refraction
    /\ inp.alt_deg = 90001
    /\ snapshot[1] = 90001
    /\ ApplyRefraction(TRUE, 90000) # 90000
    /\ ApplyRefraction(TRUE, -1000) # -1000
    /\ ApplyRefraction(TRUE, -1001) = -1001
    /\ ApplyRefraction(FALSE, 10000) = 10000

\* the bands of the phase names: [lo, hi) at scale FX, the last one closed
PhaseBands ==
    <<[lo |-> 0,    hi |-> 300,   name |-> "New Moon"],
      [lo |-> 300,  hi |-> 2500,  name |-> "Waxing crescent"],
      [lo |-> 2500, hi |-> 2700,  name |-> "First quarter"],
      [lo |-> 2700, hi |-> 4800,  name |-> "Waxing gibbous"],
      [lo |-> 4800, hi |-> 5200,  name |-> "Full Moon"],
      [lo |-> 5200, hi |-> 7300,  name |-> "Waning gibbous"],
      [lo |-> 7300, hi |-> 7700,  name |-> "Last quarter"],
      [lo |-> 7700, hi |-> 9700,  name |-> "Waning crescent"],
      [lo |-> 9700, hi |-> FX + 1, name |-> "New Moon"]>>
BandsOf(fraction) ==
    {b \in 1..Len(PhaseBands) : PhaseBands[b].lo <= fraction /\ fraction < PhaseBands[b].hi}

\* C29: the phase name is the name of the band the illuminated fraction lies
\* in: [0,0.03) New Moon, [0.03,0.25) Waxing crescent, [0.25,0.27) First
\* quarter, [0.27,0.48) Waxing gibbous, [0.48,0.52) Full Moon, [0.52,0.73)
\* Waning gibbous, [0.73,0.77) Last quarter, [0.77,0.97) Waning crescent,
\* [0.97,1.0] New Moon; every fraction in [0,1] lies in exactly one band, lower
\* bounds inclusive.
C29_PhaseNameByFractionBand ==
    /\ pc = "phase_name" =>
         /\ Cardinality(BandsOf(inp.fraction)) = 1
         /\ \A b \in BandsOf(inp.fraction) : snapshot[1] = PhaseBands[b].name
    /\ pc = "moon_phase" =>
         /\ Cardinality(BandsOf(snapshot[1].fraction)) = 1
         /\ \A b \in BandsOf(snapshot[1].fraction) : snapshot[1].name = PhaseBands[b].name

\* a fraction of exactly 0.25 is named 'First quarter'
C29_Witness ==
    /\ pc = "phase_name"
    /\ inp.fraction = 2500
    /\ snapshot[1] = "First quarter"

====
